---- MODULE Spec2Model ----
(***************************************************************************)
(* Model of the batch-processing orchestrator of pdf_knowledge_extractor   *)
(* (src/src/pdf_knowledge_extractor/claude_integration.py): the Context    *)
(* Store, the batch planner, the retry loop with quarantine, the health    *)
(* gate of process_batch, the run loop of run_batch_processing and the      *)
(* state file written by save_state and read by load_state.                *)
(*                                                                         *)
(* Probabilities and quality scores are fixed-point numbers: a quality     *)
(* score is in hundredths, a success probability in units of 10^-7.        *)
(***************************************************************************)
EXTENDS Integers, Naturals, Sequences, FiniteSets, TLC

VARIABLES
    config,             \* ClaudeIntegration.__init__: the claude section of the configuration
    document_contexts,  \* self.document_contexts, in dict (insertion) order
    batches,            \* the list create_batches returned
    batch_progress,     \* self.batch_progress (health fields)
    keyword_index,      \* self.keyword_index: keyword -> set of documents
    processed_batches,  \* self.processed_batches: keys of the batches process_batch finished
    state_file,         \* the state file and the progress file on disk
    loaded,             \* what load_state returned to this instance
    pc,                 \* position of the run loop
    batch_num,          \* index of the batch process_batch works on (1-based)
    doc_pos,            \* position of the current document inside the batch
    attempt,            \* loop variable of process_document_with_retry
    invocations,        \* per document: calls of claude_processing made so far
    failures_left,      \* failures the Analysis Service may still inject
    health_skipped,     \* numbers of the batches process_batch left at the health gate
    retry_time_passed,  \* documents whose next_retry_time had passed when the run started
    output_files        \* the files of the output directory written so far

vars == <<config, document_contexts, batches, batch_progress, keyword_index,
          processed_batches, state_file, loaded, pc, batch_num, doc_pos, attempt,
          invocations, failures_left, health_skipped, retry_time_passed,
          output_files>>

(***************************************************************************)
(* Bounds of the model                                                     *)
(***************************************************************************)
MaxDocs == 4
MaxSmallDocs == 8
MaxFailures == 5
MaxResumeDocs == 3
MaxResumeFailures == 2
MaxStateDocs == 2
MaxReleaseDocs == 2
MaxReleaseFailures == 2
MaxBackoffAttempts == 6
MaxProgressDocs == 5
MaxPatternFailures == 7
MaxKeywords == 2
MaxInterruptDocs == 3
MaxInterruptFailures == 2

(***************************************************************************)
(* Enumerations                                                            *)
(***************************************************************************)
ProcessingStatus == {"pending", "in_progress", "completed", "failed",
                     "retry_needed", "skipped"}

ClaudeErrorType == {"rate_limit", "timeout", "content_too_large",
                    "invalid_content", "cli_not_found", "cli_auth_error",
                    "network_error", "unknown_error"}

ComplexityLevels == <<"small", "medium", "large", "failed">>

(***************************************************************************)
(* Generic helpers                                                         *)
(***************************************************************************)
Min(a, b) == IF a <= b THEN a ELSE b

Max(a, b) == IF a >= b THEN a ELSE b

RECURSIVE SumSeq(_)
SumSeq(s) == IF s = <<>> THEN 0 ELSE Head(s) + SumSeq(Tail(s))

RECURSIVE Flatten(_)
Flatten(ss) == IF ss = <<>> THEN <<>> ELSE Head(ss) \o Flatten(Tail(ss))

Range(s) == {s[i] : i \in DOMAIN s}

Count(s, x) == Cardinality({i \in DOMAIN s : s[i] = x})

(***************************************************************************)
(* DocumentContext                                                         *)
(***************************************************************************)
\* a last_error text: its fixed part and, for the text of an exception of the
\* Analysis Service, the substrings categorize_claude_error looks for in it
ErrorText(text, error_msg) == <<text, error_msg>>

DocumentContext(tokens) ==
    [estimated_tokens     |-> tokens,
     processing_status    |-> "pending",
     retry_count          |-> 0,
     last_error           |-> ErrorText("None", {}),
     last_error_type      |-> "none",
     content_filtered     |-> FALSE,
     quality_score        |-> 0,
     quarantined          |-> FALSE,
     quarantine_reason    |-> <<>>,
     consecutive_failures |-> 0,
     failure_pattern      |-> <<>>,
     retry_strategy       |-> "standard",
     next_retry_time      |-> 0,
     success_probability  |-> 10000000]

(***************************************************************************)
(* Batch planner                                                           *)
(***************************************************************************)
calculate_adaptive_batch_size_capless(cfg, context) ==
    IF context.estimated_tokens < 5000 THEN cfg.batch_size * 2
    ELSE IF context.estimated_tokens < 20000 THEN cfg.batch_size + 1
    ELSE 3

calculate_adaptive_batch_size(cfg, context) ==
    IF context.estimated_tokens < 5000 THEN Min(cfg.batch_size * 2, 10)
    ELSE IF context.estimated_tokens < 20000 THEN Min(cfg.batch_size, 5)
    ELSE Min(cfg.batch_size \div 2, 2)

ComplexityOf_by_tokens(context) ==
    IF context.estimated_tokens < 5000 THEN "small"
    ELSE IF context.estimated_tokens < 20000 THEN "medium"
    ELSE "large"

ComplexityOf(context) ==
    IF context.retry_count > 0 THEN "failed"
    ELSE IF context.estimated_tokens < 5000 THEN "small"
    ELSE IF context.estimated_tokens < 20000 THEN "medium"
    ELSE "large"

group_documents_by_complexity_any_status(contexts, level) ==
    SelectSeq([i \in 1..Len(contexts) |-> i],
              LAMBDA p : ComplexityOf(contexts[p]) = level)

group_documents_by_complexity(contexts, level) ==
    SelectSeq([i \in 1..Len(contexts) |-> i],
              LAMBDA p : /\ contexts[p].processing_status = "pending"
                         /\ ComplexityOf(contexts[p]) = level)

\* list.sort(key=estimated_tokens): a stable sort, written as insertion sort
RECURSIVE InsertByTokens(_, _, _)
InsertByTokens(contexts, sorted, p) ==
    IF sorted = <<>> THEN <<p>>
    ELSE IF contexts[p].estimated_tokens < contexts[Head(sorted)].estimated_tokens
         THEN <<p>> \o sorted
         ELSE <<Head(sorted)>> \o InsertByTokens(contexts, Tail(sorted), p)

RECURSIVE SortByTokens(_, _)
SortByTokens(contexts, ds) ==
    IF ds = <<>> THEN <<>>
    ELSE InsertByTokens(contexts,
                        SortByTokens(contexts, SubSeq(ds, 1, Len(ds) - 1)),
                        ds[Len(ds)])

TokenLimit_doubled(cfg, level, context) ==
    IF level = "large" THEN cfg.max_tokens_per_request
    ELSE IF level = "failed" THEN context.estimated_tokens + 1000
    ELSE cfg.max_tokens_per_request * 2

TokenLimit(cfg, level, context) ==
    IF level = "large" THEN cfg.max_tokens_per_request \div 2
    ELSE IF level = "failed" THEN context.estimated_tokens + 1000
    ELSE cfg.max_tokens_per_request

AdaptiveSize(cfg, level, context) ==
    IF level = "failed" THEN 1 ELSE calculate_adaptive_batch_size(cfg, context)

\* the inner for loop of create_batches over one sorted complexity group
RECURSIVE PackGroup(_, _, _, _, _, _)
PackGroup(cfg, contexts, level, ds, out, current_batch) ==
    IF ds = <<>>
    THEN IF current_batch # <<>> THEN Append(out, current_batch) ELSE out
    ELSE LET p == Head(ds)
             context == contexts[p]
             current_batch_tokens ==
                 SumSeq([k \in 1..Len(current_batch) |->
                            contexts[current_batch[k]].estimated_tokens])
             would_exceed_count ==
                 Len(current_batch) >= AdaptiveSize(cfg, level, context)
             would_exceed_tokens ==
                 current_batch_tokens + context.estimated_tokens
                     > TokenLimit(cfg, level, context)
         IN  IF (would_exceed_count \/ would_exceed_tokens) /\ current_batch # <<>>
             THEN PackGroup(cfg, contexts, level, Tail(ds),
                            Append(out, current_batch), <<p>>)
             ELSE PackGroup(cfg, contexts, level, Tail(ds),
                            out, Append(current_batch, p))

RECURSIVE PackLevels(_, _, _, _)
PackLevels(cfg, contexts, k, out) ==
    IF k > Len(ComplexityLevels) THEN out
    ELSE LET level == ComplexityLevels[k]
             docs == SortByTokens(contexts,
                        group_documents_by_complexity(contexts, level))
         IN  PackLevels(cfg, contexts, k + 1,
                        PackGroup(cfg, contexts, level, docs, out, <<>>))

\* the loop of _create_simple_batches over the pending documents sorted by tokens
RECURSIVE PackSimple(_, _, _, _, _)
PackSimple(cfg, contexts, ds, out, current_batch) ==
    IF ds = <<>>
    THEN IF current_batch # <<>> THEN Append(out, current_batch) ELSE out
    ELSE LET p == Head(ds)
             current_batch_tokens ==
                 SumSeq([k \in 1..Len(current_batch) |->
                            contexts[current_batch[k]].estimated_tokens])
         IN  IF /\ \/ Len(current_batch) >= cfg.batch_size
                   \/ current_batch_tokens + contexts[p].estimated_tokens
                         > cfg.max_tokens_per_request
                /\ current_batch # <<>>
             THEN PackSimple(cfg, contexts, Tail(ds),
                             Append(out, current_batch), <<p>>)
             ELSE PackSimple(cfg, contexts, Tail(ds),
                             out, Append(current_batch, p))

create_simple_batches(cfg, contexts) ==
    PackSimple(cfg, contexts,
               SortByTokens(contexts,
                   SelectSeq([i \in 1..Len(contexts) |-> i],
                       LAMBDA p : contexts[p].processing_status = "pending")),
               <<>>, <<>>)

create_batches(cfg, contexts) ==
    IF ~cfg.adaptive_batching
    THEN create_simple_batches(cfg, contexts)
    ELSE PackLevels(cfg, contexts, 1, <<>>)

(***************************************************************************)
(* Error taxonomy.  An error message is modelled by the set of the         *)
(* substrings categorize_claude_error looks for that occur in it (in       *)
(* lower case).                                                            *)
(***************************************************************************)
ClaudeError(error_type, retry_after, is_retryable) ==
    [error_type |-> error_type, retry_after |-> retry_after,
     is_retryable |-> is_retryable]

\* categorize_claude_error with the timeout test moved in front of the
\* rate-limit test
categorize_claude_error_timeout_first(error_msg, return_code) ==
    IF "timeout" \in error_msg \/ return_code = 124
    THEN ClaudeError("timeout", 5, TRUE)
    ELSE IF "rate limit" \in error_msg \/ "too many requests" \in error_msg
    THEN ClaudeError("rate_limit", 60, TRUE)
    ELSE IF "too large" \in error_msg \/ "content length" \in error_msg
    THEN ClaudeError("content_too_large", 0, FALSE)
    ELSE IF "auth" \in error_msg \/ "unauthorized" \in error_msg \/ return_code = 401
    THEN ClaudeError("cli_auth_error", 0, FALSE)
    ELSE IF "command not found" \in error_msg \/ "no such file" \in error_msg
            \/ return_code = 127
    THEN ClaudeError("cli_not_found", 0, FALSE)
    ELSE IF "network" \in error_msg \/ "connection" \in error_msg
    THEN ClaudeError("network_error", 10, TRUE)
    ELSE IF "invalid" \in error_msg \/ "malformed" \in error_msg
    THEN ClaudeError("invalid_content", 0, FALSE)
    ELSE ClaudeError("unknown_error", 5, TRUE)

categorize_claude_error(error_msg, return_code) ==
    IF "rate limit" \in error_msg \/ "too many requests" \in error_msg
    THEN ClaudeError("rate_limit", 60, TRUE)
    ELSE IF "timeout" \in error_msg \/ return_code = 124
    THEN ClaudeError("timeout", 5, TRUE)
    ELSE IF "too large" \in error_msg \/ "content length" \in error_msg
    THEN ClaudeError("content_too_large", 0, FALSE)
    ELSE IF "auth" \in error_msg \/ "unauthorized" \in error_msg \/ return_code = 401
    THEN ClaudeError("cli_auth_error", 0, FALSE)
    ELSE IF "command not found" \in error_msg \/ "no such file" \in error_msg
            \/ return_code = 127
    THEN ClaudeError("cli_not_found", 0, FALSE)
    ELSE IF "network" \in error_msg \/ "connection" \in error_msg
    THEN ClaudeError("network_error", 10, TRUE)
    ELSE IF "invalid" \in error_msg \/ "malformed" \in error_msg
    THEN ClaudeError("invalid_content", 0, FALSE)
    ELSE ClaudeError("unknown_error", 5, TRUE)

(***************************************************************************)
(* Success probability (units of 10^-7) and retry strategy                 *)
(***************************************************************************)
ProbabilityUnit == 100000

calculate_success_probability(context) ==
    LET base == (80 - Min(context.retry_count * 15, 60)) * ProbabilityUnit
        error_types == Range(context.failure_pattern)
        p1 == IF context.failure_pattern # <<>> /\ Cardinality(error_types) > 2
              THEN (base * 7) \div 10 ELSE base
        \* the pattern holds the enum values, the test is on the enum names
        non_retryable_count ==
            Cardinality({i \in DOMAIN context.failure_pattern :
                context.failure_pattern[i] \in
                    {"CLI_NOT_FOUND", "CLI_AUTH_ERROR", "CONTENT_TOO_LARGE"}})
        p2 == IF non_retryable_count > 0 THEN (p1 * 3) \div 10 ELSE p1
        p3 == (p2 * Max(context.quality_score, 20)) \div 100
        p4 == IF context.estimated_tokens > 50000 THEN (p3 * 8) \div 10
              ELSE IF context.estimated_tokens > 20000 THEN (p3 * 9) \div 10
              ELSE p3
    IN  Max(Min(p4, 100 * ProbabilityUnit), 0)

determine_retry_strategy(cfg, context) ==
    LET success_prob == calculate_success_probability(context)
    IN  IF success_prob < 20 * ProbabilityUnit THEN "skip"
        ELSE IF \/ context.consecutive_failures >= 3
                \/ success_prob < 40 * ProbabilityUnit
                \/ context.retry_count >= cfg.max_retries - 1
        THEN "conservative"
        ELSE IF /\ success_prob > 70 * ProbabilityUnit
                /\ context.retry_count <= 1
                /\ context.quality_score > 80
        THEN "aggressive"
        ELSE "standard"

(***************************************************************************)
(* Quarantine manager                                                      *)
(***************************************************************************)
LastN(s, n) == SubSeq(s, Max(1, Len(s) - n + 1), Len(s))

QuarantineDecision(q, reason) == [quarantine |-> q, reason |-> reason]

should_quarantine_document_late(context, error_type) ==
    IF context.quarantined THEN QuarantineDecision(FALSE, <<"Already quarantined">>)
    ELSE IF error_type \in {"cli_not_found", "cli_auth_error"}
    THEN QuarantineDecision(TRUE, <<"Critical system error", error_type>>)
    ELSE IF context.consecutive_failures >= 5
    THEN QuarantineDecision(TRUE, <<"Too many consecutive failures">>)
    ELSE IF context.failure_pattern # <<>>
            /\ Count(LastN(context.failure_pattern, 4), error_type) >= 4
    THEN QuarantineDecision(TRUE, <<"Repeated errors", error_type>>)
    ELSE IF calculate_success_probability(context) < 10 * ProbabilityUnit
    THEN QuarantineDecision(TRUE, <<"Very low success probability">>)
    ELSE QuarantineDecision(FALSE, <<"No quarantine needed">>)

should_quarantine_document_after_five(context, error_type) ==
    IF context.quarantined THEN QuarantineDecision(FALSE, <<"Already quarantined">>)
    ELSE IF error_type \in {"cli_not_found", "cli_auth_error"}
    THEN QuarantineDecision(TRUE, <<"Critical system error", error_type>>)
    ELSE IF context.consecutive_failures > 5
    THEN QuarantineDecision(TRUE, <<"Too many consecutive failures">>)
    ELSE IF context.failure_pattern # <<>>
            /\ Count(LastN(context.failure_pattern, 3), error_type) >= 3
    THEN QuarantineDecision(TRUE, <<"Repeated errors", error_type>>)
    ELSE IF calculate_success_probability(context) < 10 * ProbabilityUnit
    THEN QuarantineDecision(TRUE, <<"Very low success probability">>)
    ELSE QuarantineDecision(FALSE, <<"No quarantine needed">>)

should_quarantine_document_without_critical(context, error_type) ==
    IF context.quarantined THEN QuarantineDecision(FALSE, <<"Already quarantined">>)
    ELSE IF context.consecutive_failures >= 5
    THEN QuarantineDecision(TRUE, <<"Too many consecutive failures">>)
    ELSE IF context.failure_pattern # <<>>
            /\ Count(LastN(context.failure_pattern, 3), error_type) >= 3
    THEN QuarantineDecision(TRUE, <<"Repeated errors", error_type>>)
    ELSE IF calculate_success_probability(context) < 10 * ProbabilityUnit
    THEN QuarantineDecision(TRUE, <<"Very low success probability">>)
    ELSE QuarantineDecision(FALSE, <<"No quarantine needed">>)

should_quarantine_document(context, error_type) ==
    IF context.quarantined THEN QuarantineDecision(FALSE, <<"Already quarantined">>)
    ELSE IF error_type \in {"cli_not_found", "cli_auth_error"}
    THEN QuarantineDecision(TRUE, <<"Critical system error", error_type>>)
    ELSE IF context.consecutive_failures >= 5
    THEN QuarantineDecision(TRUE, <<"Too many consecutive failures">>)
    ELSE IF context.failure_pattern # <<>>
            /\ Count(LastN(context.failure_pattern, 3), error_type) >= 3
    THEN QuarantineDecision(TRUE, <<"Repeated errors", error_type>>)
    ELSE IF calculate_success_probability(context) < 10 * ProbabilityUnit
    THEN QuarantineDecision(TRUE, <<"Very low success probability">>)
    ELSE QuarantineDecision(FALSE, <<"No quarantine needed">>)

RECURSIVE Pow2(_)
Pow2(n) == IF n = 0 THEN 1 ELSE 2 * Pow2(n - 1)

quarantine_document_keeps_status(context, reason) ==
    [context EXCEPT !.quarantined = TRUE,
                    !.quarantine_reason = reason,
                    !.next_retry_time = Min(Pow2(context.consecutive_failures), 24)]

\* next_retry_time is kept as the quarantine delay in hours (0 = None)
quarantine_document(context, reason) ==
    [context EXCEPT !.quarantined = TRUE,
                    !.quarantine_reason = reason,
                    !.processing_status = "skipped",
                    !.next_retry_time = Min(Pow2(context.consecutive_failures), 24)]

\* due: datetime.now() >= next_retry
check_quarantine_release(context, due) ==
    IF ~context.quarantined \/ context.next_retry_time = 0 THEN FALSE
    ELSE due

release_from_quarantine_keeps_retry_time(context) ==
    [context EXCEPT !.quarantined = FALSE,
                    !.processing_status = "pending",
                    !.consecutive_failures = Max(0, @ - 1)]

release_from_quarantine_resets_failures(context) ==
    [context EXCEPT !.quarantined = FALSE,
                    !.processing_status = "pending",
                    !.next_retry_time = 0,
                    !.consecutive_failures = 0]

\* release_from_quarantine that also clears the retry count ("fresh start")
release_from_quarantine_resets_retry_count(context) ==
    [context EXCEPT !.quarantined = FALSE,
                    !.processing_status = "pending",
                    !.next_retry_time = 0,
                    !.consecutive_failures = Max(0, @ - 1),
                    !.retry_count = 0]

release_from_quarantine(context) ==
    [context EXCEPT !.quarantined = FALSE,
                    !.processing_status = "pending",
                    !.next_retry_time = 0,
                    !.consecutive_failures = Max(0, @ - 1)]

(***************************************************************************)
(* Progress aggregate                                                      *)
(***************************************************************************)
BatchProgress(total) ==
    [total_documents      |-> total,
     processed_documents  |-> 0,
     failed_documents     |-> 0,
     skipped_documents    |-> 0,
     current_batch        |-> 0,
     total_batches        |-> 0,
     claude_health_status |-> "unknown",
     consecutive_failures |-> 0,
     rate_limit_hits      |-> 0]

CountStatus(contexts, status) ==
    Cardinality({i \in DOMAIN contexts : contexts[i].processing_status = status})

update_progress(progress, contexts, batch_number, total_batches) ==
    [progress EXCEPT !.processed_documents = CountStatus(contexts, "completed"),
                     !.failed_documents = CountStatus(contexts, "failed"),
                     !.skipped_documents = CountStatus(contexts, "skipped"),
                     !.current_batch = batch_number,
                     !.total_batches = total_batches]

\* a quotient of two integers, kept exact as a fraction in lowest terms (the
\* float of the code is its rounding)
RECURSIVE GCD(_, _)
GCD(a, b) == IF b = 0 THEN a ELSE GCD(b, a % b)

Fraction(num, den) ==
    [num |-> num \div GCD(num, den), den |-> den \div GCD(num, den)]

completion_percentage_of_attempted(progress) ==
    IF progress.total_documents = 0 THEN Fraction(0, 1)
    ELSE LET ratio == Fraction(progress.processed_documents
                                   + progress.failed_documents,
                               progress.total_documents)
         IN  Fraction(ratio.num * 100, ratio.den)

\* (self.processed_documents / self.total_documents) * 100
completion_percentage(progress) ==
    IF progress.total_documents = 0 THEN Fraction(0, 1)
    ELSE LET ratio == Fraction(progress.processed_documents,
                               progress.total_documents)
         IN  Fraction(ratio.num * 100, ratio.den)

(***************************************************************************)
(* State persistence.  The state file is modelled by what reached the      *)
(* disk: the entries of 'document_contexts' that json.dump wrote           *)
(* completely, and whether the JSON text was written to its end.  Document *)
(* paths are the positions in the Context Store.                           *)
(***************************************************************************)
\* the JSON text of a Python str
JsonString(s) == [json_string |-> s]

\* ProcessingStatus(value): the member that has this value
ProcessingStatusOf(json) == json.json_string

NoStateFile ==
    [exists |-> FALSE, complete |-> FALSE, document_contexts |-> <<>>,
     keyword_index |-> <<>>, processed_batches |-> <<>>, progress |-> <<>>]

\* list(v) of a set of documents
RECURSIVE SetToList(_)
SetToList(S) ==
    IF S = {} THEN <<>>
    ELSE LET m == CHOOSE x \in S : \A y \in S : x <= y
         IN  <<m>> \o SetToList(S \ {m})

\* {**asdict(context), 'processing_status': context.processing_status.value}
SerializeContext(context) ==
    [context EXCEPT !.processing_status = JsonString(@)]

\* asdict leaves last_error_type a ClaudeErrorType member, and json.dump raises
\* TypeError on an Enum member
JsonSerializable(entry) == entry.last_error_type = "none"

\* the number of entries json.dump writes completely: it stops at the first
\* entry it cannot serialise, and after `limit` entries when the write fails or
\* the process dies
EntriesWritten(entries, limit) ==
    LET stops == {i \in 1..Len(entries) : ~JsonSerializable(entries[i])}
                 \cup {limit + 1, Len(entries) + 1}
    IN  (CHOOSE i \in stops : \A j \in stops : i <= j) - 1

\* a limit that stands for a write that is not interrupted
NoWriteFailure(contexts) == Len(contexts) + 1

\* open(self.state_file, 'w') truncates the file, json.dump writes into it; the
\* progress file is written only after the state file was written to its end
save_state(contexts, kidx, done, progress, old_file, limit) ==
    LET entries == [i \in DOMAIN contexts |-> SerializeContext(contexts[i])]
        n == EntriesWritten(entries, limit)
    IN  IF n = Len(entries) /\ limit > Len(entries)
        THEN [exists |-> TRUE, complete |-> TRUE,
              document_contexts |-> entries,
              keyword_index |-> [k \in DOMAIN kidx |-> SetToList(kidx[k])],
              processed_batches |-> done,
              progress |-> <<progress>>]
        ELSE [exists |-> TRUE, complete |-> FALSE,
              document_contexts |-> SubSeq(entries, 1, n),
              keyword_index |-> <<>>,
              processed_batches |-> <<>>,
              progress |-> old_file.progress]

\* load_state returns False when there is no file and when json.load raises on
\* a text that was cut off; the instance is then left as it was constructed
load_state(file) ==
    IF ~file.exists \/ ~file.complete
    THEN [ok |-> FALSE, document_contexts |-> <<>>, keyword_index |-> <<>>,
          processed_batches |-> <<>>, progress |-> <<>>]
    ELSE [ok |-> TRUE,
          document_contexts |->
              [i \in DOMAIN file.document_contexts |->
                  [file.document_contexts[i] EXCEPT
                      !.processing_status = ProcessingStatusOf(@)]],
          keyword_index |->
              [k \in DOMAIN file.keyword_index |-> Range(file.keyword_index[k])],
          processed_batches |-> file.processed_batches,
          progress |-> file.progress]

\* build_keyword_index for a document whose text has the keywords kws
build_keyword_index(kidx, d, kws) ==
    [k \in DOMAIN kidx \cup kws |->
        (IF k \in DOMAIN kidx THEN kidx[k] ELSE {})
        \cup (IF k \in kws THEN {d} ELSE {})]

(***************************************************************************)
(* Configurations and inputs                                               *)
(***************************************************************************)
DefaultMaxTokensPerRequest == 8000

QualityThreshold == 50

Config(batch_size, max_tokens, max_retries, skip_failed, health, adaptive) ==
    [batch_size |-> batch_size, max_tokens_per_request |-> max_tokens,
     max_retries |-> max_retries, skip_failed |-> skip_failed,
     health_check_enabled |-> health, adaptive_batching |-> adaptive]

\* the message claude_processing raises with when both subprocess.run calls
\* end in TimeoutExpired: "Claude Code command timed out after {n}s"
TimedOutMessage == {"timed out"}

\* messages the Analysis Service fails with in the runs that are explored
RunMessages == {{"rate limit"}, {"timeout"}, TimedOutMessage,
                {"auth", "unauthorized"}, {"too large"}}

QualityScores == {40, 100}

\* extract_keywords: the keywords of every document text of the runs explored
TextKeywords == {"knowledge"}

(***************************************************************************)
(* run_batch_processing: the start of a run                                *)
(***************************************************************************)
\* an entry of processable_pdfs.json; extract_text raises on an unreadable file
PdfInfo(tokens, readable) == [tokens |-> tokens, readable |-> readable]

initialize_document_contexts_anew(contexts, pdf_list) ==
    [i \in 1..Len(pdf_list) |->
        IF pdf_list[i].readable THEN DocumentContext(pdf_list[i].tokens)
        ELSE [DocumentContext(0) EXCEPT
                 !.processing_status = "failed",
                 !.last_error = ErrorText("Extraction failed", {})]]

\* a context for every listed document that has none yet: the documents of the
\* list are numbered from 1 and the store holds the first Len(contexts) of them
initialize_document_contexts(contexts, pdf_list) ==
    [i \in 1..Max(Len(contexts), Len(pdf_list)) |->
        IF i <= Len(contexts) THEN contexts[i]
        ELSE IF pdf_list[i].readable THEN DocumentContext(pdf_list[i].tokens)
        ELSE [DocumentContext(0) EXCEPT
                 !.processing_status = "failed",
                 !.last_error = ErrorText("Extraction failed", {})]]

\* the processable_pdfs.json entry of a document of the store: the unreadable
\* documents are those with no tokens
PdfInfoOf(context) ==
    PdfInfo(context.estimated_tokens, context.estimated_tokens > 0)

\* datetime.now() at the start of a run, in hours since the documents of the
\* store were quarantined: before every retry time, or after every one of them
RunStartHours == {0, 24}

\* the documents check_quarantine_release would answer True for at that time
RetryTimePassed(contexts, now) ==
    {d \in DOMAIN contexts :
        check_quarantine_release(contexts[d], now >= contexts[d].next_retry_time)}

\* a new process after the run ended or was interrupted between two batches:
\* __init__, then run_batch_processing (resume=True) up to create_batches.
\* The resumptions explored are those of a first run that left a state file
\* written to its end, with at most MaxResumeDocs documents listed.
ResumeRun(new_pdfs) ==
    /\ pc \in {"batch", "done"}
    /\ state_file.complete
    /\ ~loaded.ok
    /\ Len(document_contexts) + Len(new_pdfs) <= MaxResumeDocs
    /\ LET pdf_list == [i \in DOMAIN document_contexts |->
                           PdfInfoOf(document_contexts[i])] \o new_pdfs
           state == load_state(state_file)
           contexts == initialize_document_contexts(state.document_contexts,
                                                    pdf_list)
       IN  /\ loaded' = state
           /\ document_contexts' = contexts
           /\ keyword_index' = state.keyword_index
           /\ processed_batches' = state.processed_batches
           /\ batch_progress' = IF state.progress # <<>> THEN state.progress[1]
                                ELSE BatchProgress(Len(contexts))
           /\ invocations' = [d \in DOMAIN contexts |-> 0]
    /\ batches' = <<>>
    /\ pc' = "start"
    /\ batch_num' = 0
    /\ doc_pos' = 0
    /\ attempt' = 0
    /\ health_skipped' = {}
    /\ \E now \in RunStartHours :
           retry_time_passed' =
               RetryTimePassed(load_state(state_file).document_contexts, now)
    /\ UNCHANGED <<config, state_file, failures_left, output_files>>

(***************************************************************************)
(* run_batch_processing: planning                                          *)
(***************************************************************************)
CreateBatches ==
    /\ pc = "start"
    /\ batches' = create_batches(config, document_contexts)
    /\ batch_progress' = [batch_progress EXCEPT !.total_batches = Len(batches')]
    /\ pc' = "batch"
    /\ batch_num' = 0
    /\ UNCHANGED <<config, document_contexts, keyword_index, processed_batches,
                   state_file, loaded, doc_pos, attempt, invocations,
                   failures_left, health_skipped, retry_time_passed,
                   output_files>>

(***************************************************************************)
(* process_batch                                                           *)
(***************************************************************************)
CurrentBatch == batches[batch_num]

CurrentDoc == CurrentBatch[doc_pos]

\* the end of one iteration of the for loop of process_batch and, after the
\* last document, the return to run_batch_processing (update_progress,
\* save_state); no caller changes keyword_index in the same step
\* f"batch_{batch_number}_{len(batch)}_docs"
BatchKey(batch_number, batch) == <<batch_number, Len(batch)>>

\* f"{Path(context.filename).stem}_analysis.md", written by the success branch
\* of process_batch
AnalysisFile(d) == <<"analysis", d>>

\* f"batch{batch_number}_summary.md", written by generate_batch_summary when
\* process_batch has returned
SummaryFile(batch_number) == <<"summary", batch_number>>

\* the save_state of process_batch after every fifth document of the batch
PeriodicSave(contexts, progress) ==
    IF doc_pos % 5 = 0
    THEN save_state(contexts, keyword_index, processed_batches, progress,
                    state_file, NoWriteFailure(contexts))
    ELSE state_file

AfterDocument(contexts, progress) ==
    /\ document_contexts' = contexts
    /\ output_files' =
           LET written ==
                   IF contexts[CurrentDoc].processing_status = "completed"
                   THEN output_files \cup {AnalysisFile(CurrentDoc)}
                   ELSE output_files
           IN  IF doc_pos < Len(CurrentBatch) THEN written
               ELSE written \cup {SummaryFile(batch_num)}
    /\ IF doc_pos < Len(CurrentBatch)
       THEN /\ doc_pos' = doc_pos + 1
            /\ pc' = "document"
            /\ batch_progress' = progress
            /\ state_file' = PeriodicSave(contexts, progress)
            /\ UNCHANGED processed_batches
       ELSE /\ doc_pos' = 0
            /\ pc' = "batch"
            /\ batch_progress' =
                   update_progress(progress, contexts, batch_num, Len(batches))
            /\ processed_batches' =
                   IF BatchKey(batch_num, CurrentBatch) \in Range(processed_batches)
                   THEN processed_batches
                   ELSE Append(processed_batches, BatchKey(batch_num, CurrentBatch))
            /\ state_file' =
                   save_state(contexts, keyword_index, processed_batches',
                              batch_progress', PeriodicSave(contexts, progress),
                              NoWriteFailure(contexts))

StartBatch(is_healthy) ==
    /\ pc = "batch"
    /\ batch_num < Len(batches)
    /\ config.health_check_enabled \/ is_healthy
    /\ batch_num' = batch_num + 1
    /\ LET progress ==
               IF ~config.health_check_enabled THEN batch_progress
               ELSE IF ~is_healthy
               THEN [batch_progress EXCEPT !.claude_health_status = "unhealthy"]
               ELSE [batch_progress EXCEPT !.claude_health_status = "healthy",
                                           !.consecutive_failures = 0]
       IN  IF config.health_check_enabled /\ ~is_healthy /\ config.skip_failed
           THEN \* return 0, len(batch)
                /\ batch_progress' = update_progress(progress, document_contexts,
                                                     batch_num + 1, Len(batches))
                /\ pc' = "batch"
                /\ doc_pos' = 0
                /\ health_skipped' = health_skipped \cup {batch_num + 1}
                /\ output_files' = output_files \cup {SummaryFile(batch_num + 1)}
                /\ state_file' =
                       save_state(document_contexts, keyword_index,
                                  processed_batches, batch_progress', state_file,
                                  NoWriteFailure(document_contexts))
           ELSE /\ batch_progress' = progress
                /\ pc' = "document"
                /\ doc_pos' = 1
                /\ UNCHANGED <<health_skipped, state_file, output_files>>
    /\ UNCHANGED <<config, document_contexts, batches, keyword_index,
                   processed_batches, loaded, attempt, invocations,
                   failures_left, retry_time_passed>>

(***************************************************************************)
(* process_document_with_retry                                             *)
(***************************************************************************)
\* should_filter_document: the quality score is stored, the gate is decided
FilterQuality(context, quality) ==
    IF context.content_filtered THEN context
    ELSE [context EXCEPT !.quality_score = quality]

should_filter_document(context, quality, gate_hit) ==
    /\ ~context.content_filtered
    /\ (gate_hit \/ quality < QualityThreshold)

\* the part of process_document_with_retry before the retry loop
StartDocument(extract, quality, gate_hit) ==
    /\ pc = "document"
    /\ extract # "ok" => (quality = 100 /\ ~gate_hit)
    /\ LET d == CurrentDoc
           c0 == [document_contexts[d] EXCEPT !.processing_status = "in_progress"]
           c1 == FilterQuality(c0, quality)
           filtered == should_filter_document(c0, quality, gate_hit)
           c2 == IF filtered
                 THEN [c1 EXCEPT !.processing_status = "skipped",
                                 !.last_error = ErrorText("Document filtered", {}),
                                 !.content_filtered = TRUE]
                 ELSE c1
       IN  IF extract # "ok"
           THEN /\ AfterDocument(
                      [document_contexts EXCEPT ![d] =
                          [c0 EXCEPT !.processing_status = "failed",
                                     !.last_error =
                                         IF extract = "empty"
                                         THEN ErrorText("No text extracted from PDF", {})
                                         ELSE ErrorText("Text extraction failed", {}),
                                     !.last_error_type = "invalid_content"]],
                      batch_progress)
                /\ UNCHANGED <<attempt, keyword_index>>
           ELSE IF filtered /\ config.skip_failed
           THEN /\ AfterDocument([document_contexts EXCEPT ![d] = c2],
                                 batch_progress)
                /\ UNCHANGED <<attempt, keyword_index>>
           ELSE /\ document_contexts' = [document_contexts EXCEPT ![d] = c2]
                /\ keyword_index' =
                       build_keyword_index(keyword_index, d, TextKeywords)
                /\ pc' = "attempt"
                /\ attempt' = 0
                /\ UNCHANGED <<batch_progress, doc_pos, processed_batches,
                               state_file, output_files>>
    /\ UNCHANGED <<config, batches, loaded, batch_num, invocations,
                   failures_left, health_skipped, retry_time_passed>>

RecordFailure_counts_attempts(cfg, context, n, error_type) ==
    LET c1 == [context EXCEPT !.retry_count = n + 1,
                              !.last_error_type = error_type,
                              !.consecutive_failures = @ + 1,
                              !.failure_pattern =
                                  IF Len(@) + 1 > 10 THEN Tail(Append(@, error_type))
                                  ELSE Append(@, error_type)]
        c2 == [c1 EXCEPT !.success_probability = calculate_success_probability(c1)]
    IN  [c2 EXCEPT !.retry_strategy = determine_retry_strategy(cfg, c2)]

RecordFailure_drops_newest(cfg, context, n, error_type) ==
    LET c1 == [context EXCEPT !.retry_count = n,
                              !.last_error_type = error_type,
                              !.consecutive_failures = @ + 1,
                              !.failure_pattern =
                                  IF Len(@) + 1 > 10 THEN @
                                  ELSE Append(@, error_type)]
        c2 == [c1 EXCEPT !.success_probability = calculate_success_probability(c1)]
    IN  [c2 EXCEPT !.retry_strategy = determine_retry_strategy(cfg, c2)]

\* the failure tracking of the except branch, up to the quarantine check
RecordFailure(cfg, context, n, error_type) ==
    LET c1 == [context EXCEPT !.retry_count = n,
                              !.last_error_type = error_type,
                              !.consecutive_failures = @ + 1,
                              !.failure_pattern =
                                  IF Len(@) + 1 > 10 THEN Tail(Append(@, error_type))
                                  ELSE Append(@, error_type)]
        c2 == [c1 EXCEPT !.success_probability = calculate_success_probability(c1)]
    IN  [c2 EXCEPT !.retry_strategy = determine_retry_strategy(cfg, c2)]

AttemptSucceeds_keeps_health ==
    /\ pc = "attempt"
    /\ LET d == CurrentDoc
           c == [document_contexts[d] EXCEPT !.processing_status = "completed",
                                             !.last_error_type = "none"]
           progress == [batch_progress EXCEPT !.consecutive_failures = 0]
       IN  /\ invocations' = [invocations EXCEPT ![d] = @ + 1]
           /\ AfterDocument([document_contexts EXCEPT ![d] = c], progress)
    /\ UNCHANGED <<config, batches, keyword_index, loaded, batch_num, attempt,
                   failures_left, health_skipped, retry_time_passed>>

\* one iteration of the retry loop in which claude_processing returns a response,
\* followed by the success branch of process_batch
AttemptSucceeds ==
    /\ pc = "attempt"
    /\ LET d == CurrentDoc
           c == [document_contexts[d] EXCEPT !.processing_status = "completed",
                                             !.last_error_type = "none"]
           progress ==
               [batch_progress EXCEPT
                   !.consecutive_failures = 0,
                   !.claude_health_status =
                       IF @ = "degraded" THEN "healthy" ELSE @]
       IN  /\ invocations' = [invocations EXCEPT ![d] = @ + 1]
           /\ AfterDocument([document_contexts EXCEPT ![d] = c], progress)
    /\ UNCHANGED <<config, batches, keyword_index, loaded, batch_num, attempt,
                   failures_left, health_skipped, retry_time_passed>>

\* AttemptFails with a retry loop that goes round once more: the last attempt
\* is the one with index max_retries + 1
AttemptFails_one_more_round(error_msg) ==
    /\ pc = "attempt"
    /\ failures_left > 0
    /\ failures_left' = failures_left - 1
    /\ LET d == CurrentDoc
           claude_error == categorize_claude_error(error_msg, 1)
           kind == claude_error.error_type
           c == RecordFailure(config,
                              [document_contexts[d] EXCEPT
                                  !.last_error =
                                      ErrorText("Claude processing failed",
                                                error_msg)],
                              attempt, kind)
           decision == should_quarantine_document(c, kind)
           with(ctx) == [document_contexts EXCEPT ![d] = ctx]
       IN  /\ invocations' = [invocations EXCEPT ![d] = @ + 1]
           /\ IF decision.quarantine
              THEN /\ AfterDocument(with(quarantine_document(c, decision.reason)),
                                    batch_progress)
                   /\ UNCHANGED attempt
              ELSE IF ~claude_error.is_retryable
              THEN /\ AfterDocument(with([c EXCEPT !.processing_status = "failed"]),
                                    batch_progress)
                   /\ UNCHANGED attempt
              ELSE IF c.retry_strategy = "skip"
              THEN /\ AfterDocument(with([c EXCEPT !.processing_status = "skipped"]),
                                    batch_progress)
                   /\ UNCHANGED attempt
              ELSE IF config.skip_failed
                      /\ kind \in {"cli_not_found", "cli_auth_error",
                                   "content_too_large"}
              THEN /\ AfterDocument(with([c EXCEPT !.processing_status = "skipped"]),
                                    batch_progress)
                   /\ UNCHANGED attempt
              ELSE IF attempt <= config.max_retries
              THEN \* back off (time.sleep) and go round the loop again
                   /\ document_contexts' = with(c)
                   /\ batch_progress' =
                          IF kind = "rate_limit"
                          THEN [batch_progress EXCEPT
                                   !.rate_limit_hits = @ + 1,
                                   !.claude_health_status = "degraded"]
                          ELSE batch_progress
                   /\ attempt' = attempt + 1
                   /\ UNCHANGED <<pc, doc_pos, processed_batches, state_file,
                                  output_files>>
              ELSE /\ AfterDocument(
                         with([c EXCEPT !.processing_status = "failed"]),
                         [batch_progress EXCEPT
                             !.consecutive_failures = @ + 1,
                             !.claude_health_status =
                                 IF batch_progress.consecutive_failures + 1 >= 5
                                 THEN "unhealthy" ELSE @])
                   /\ UNCHANGED attempt
    /\ UNCHANGED <<config, batches, keyword_index, loaded, batch_num,
                   health_skipped, retry_time_passed>>

\* one iteration of the retry loop in which claude_processing raises
AttemptFails(error_msg) ==
    /\ pc = "attempt"
    /\ failures_left > 0
    /\ failures_left' = failures_left - 1
    /\ LET d == CurrentDoc
           claude_error == categorize_claude_error(error_msg, 1)
           kind == claude_error.error_type
           c == RecordFailure(config,
                              [document_contexts[d] EXCEPT
                                  !.last_error =
                                      ErrorText("Claude processing failed",
                                                error_msg)],
                              attempt, kind)
           decision == should_quarantine_document(c, kind)
           with(ctx) == [document_contexts EXCEPT ![d] = ctx]
       IN  /\ invocations' = [invocations EXCEPT ![d] = @ + 1]
           /\ IF decision.quarantine
              THEN /\ AfterDocument(with(quarantine_document(c, decision.reason)),
                                    batch_progress)
                   /\ UNCHANGED attempt
              ELSE IF ~claude_error.is_retryable
              THEN /\ AfterDocument(with([c EXCEPT !.processing_status = "failed"]),
                                    batch_progress)
                   /\ UNCHANGED attempt
              ELSE IF c.retry_strategy = "skip"
              THEN /\ AfterDocument(with([c EXCEPT !.processing_status = "skipped"]),
                                    batch_progress)
                   /\ UNCHANGED attempt
              ELSE IF config.skip_failed
                      /\ kind \in {"cli_not_found", "cli_auth_error",
                                   "content_too_large"}
              THEN /\ AfterDocument(with([c EXCEPT !.processing_status = "skipped"]),
                                    batch_progress)
                   /\ UNCHANGED attempt
              ELSE IF attempt < config.max_retries
              THEN \* back off (time.sleep) and go round the loop again
                   /\ document_contexts' = with(c)
                   /\ batch_progress' =
                          IF kind = "rate_limit"
                          THEN [batch_progress EXCEPT
                                   !.rate_limit_hits = @ + 1,
                                   !.claude_health_status = "degraded"]
                          ELSE batch_progress
                   /\ attempt' = attempt + 1
                   /\ UNCHANGED <<pc, doc_pos, processed_batches, state_file,
                                  output_files>>
              ELSE /\ AfterDocument(
                         with([c EXCEPT !.processing_status = "failed"]),
                         [batch_progress EXCEPT
                             !.consecutive_failures = @ + 1,
                             !.claude_health_status =
                                 IF batch_progress.consecutive_failures + 1 >= 5
                                 THEN "unhealthy" ELSE @])
                   /\ UNCHANGED attempt
    /\ UNCHANGED <<config, batches, keyword_index, loaded, batch_num,
                   health_skipped, retry_time_passed>>

\* KeyboardInterrupt (or another BaseException) is raised inside
\* claude_processing: no except clause of the retry loop, of process_batch or
\* of run_batch_processing catches it, so the run is left at once with the
\* store as it is and nothing is saved
Interrupt ==
    /\ pc = "attempt"
    /\ invocations' = [invocations EXCEPT ![CurrentDoc] = @ + 1]
    /\ pc' = "interrupted"
    /\ UNCHANGED <<config, document_contexts, batches, batch_progress,
                   keyword_index, processed_batches, state_file, loaded,
                   batch_num, doc_pos, attempt, failures_left, health_skipped,
                   retry_time_passed, output_files>>

(***************************************************************************)
(* run_batch_processing: the end of the run                                *)
(***************************************************************************)
FinishRun ==
    /\ pc = "batch"
    /\ batch_num = Len(batches)
    /\ pc' = "done"
    /\ state_file' = save_state(document_contexts, keyword_index,
                                processed_batches, batch_progress, state_file,
                                NoWriteFailure(document_contexts))
    /\ UNCHANGED <<config, document_contexts, batches, batch_progress,
                   keyword_index, processed_batches, loaded, batch_num, doc_pos,
                   attempt, invocations, failures_left, health_skipped,
                   retry_time_passed, output_files>>

(***************************************************************************)
(* save_state and load_state called on their own                           *)
(***************************************************************************)
\* save_state of a populated instance; the write is not interrupted, or it
\* fails (OSError, or the process dies) after `limit` entries
SaveState(limit) ==
    /\ pc = "ready"
    /\ state_file' = save_state(document_contexts, keyword_index,
                                processed_batches, batch_progress, state_file,
                                limit)
    /\ pc' = IF limit > Len(document_contexts) THEN "saved" ELSE "interrupted"
    /\ UNCHANGED <<config, document_contexts, batches, batch_progress,
                   keyword_index, processed_batches, loaded, batch_num, doc_pos,
                   attempt, invocations, failures_left, health_skipped,
                   retry_time_passed, output_files>>

\* load_state of a fresh instance; document_contexts, keyword_index and
\* processed_batches stay those of the instance that saved
LoadState ==
    /\ pc \in {"saved", "interrupted"}
    /\ loaded' = load_state(state_file)
    /\ pc' = IF pc = "saved" THEN "reloaded" ELSE "recovered"
    /\ UNCHANGED <<config, document_contexts, batches, batch_progress,
                   keyword_index, processed_batches, state_file, batch_num,
                   doc_pos, attempt, invocations, failures_left, health_skipped,
                   retry_time_passed, output_files>>

(***************************************************************************)
(* Backoff.  Delays are fixed-point numbers in units of 10^-6 seconds, the *)
(* multiplier of the rate-limit delay is in tenths and the jitter share in *)
(* hundredths.                                                             *)
(***************************************************************************)
DelayUnit == 1000000

BackoffConfig(retry_delay_base, retry_delay_max, multiplier) ==
    [retry_delay_base |-> retry_delay_base, retry_delay_max |-> retry_delay_max,
     rate_limit_backoff_multiplier |-> multiplier]

\* the fields of a DocumentContext the sleep branch of the retry loop reads and
\* writes; retry_delays is the audit list of the delays slept
RetryContext(error_type, retry_strategy, consecutive_failures) ==
    [last_error_type |-> error_type,
     retry_strategy |-> retry_strategy,
     consecutive_failures |-> consecutive_failures,
     retry_delays |-> <<>>]

BaseDelay(cfg, error_type) ==
    IF error_type = "rate_limit"
    THEN (Max(cfg.retry_delay_base, 2 * DelayUnit)
             * cfg.rate_limit_backoff_multiplier) \div 10
    ELSE IF error_type = "network_error"
    THEN Max(cfg.retry_delay_base, DelayUnit)
    ELSE cfg.retry_delay_base

ExponentialDelay_uncapped(cfg, n, error_type) ==
    BaseDelay(cfg, error_type) * Pow2(n)

\* delay = min(base_delay * (2 ** attempt), self.retry_delay_max)
ExponentialDelay(cfg, n, error_type) ==
    Min(BaseDelay(cfg, error_type) * Pow2(n), cfg.retry_delay_max)

\* jitter: random.uniform(0.1, 0.3), in hundredths
calculate_exponential_backoff(cfg, n, error_type, jitter) ==
    LET delay == ExponentialDelay(cfg, n, error_type)
    IN  delay + (jitter * delay) \div 100

StrategyMultiplier(retry_strategy) ==
    IF retry_strategy = "aggressive" THEN 5
    ELSE IF retry_strategy = "conservative" THEN 20
    ELSE 10

\* the delay process_document_with_retry sleeps for, given the backoff
AppliedDelay(context, claude_error, base_delay) ==
    LET d1 == (base_delay * StrategyMultiplier(context.retry_strategy)) \div 10
        d2 == IF claude_error.retry_after # 0
              THEN Max(d1, claude_error.retry_after * DelayUnit) ELSE d1
    IN  IF context.consecutive_failures > 2
        THEN (d2 * (10 + (context.consecutive_failures - 2) * 3)) \div 10
        ELSE d2

\* the sleep branch of the retry loop for a failure of the kind of claude_error
SleepBeforeRetry(claude_error, jitter) ==
    /\ pc = "backoff"
    /\ attempt < MaxBackoffAttempts
    /\ LET context == document_contexts[1]
           delay == AppliedDelay(context, claude_error,
                        calculate_exponential_backoff(config, attempt,
                            claude_error.error_type, jitter))
       IN  document_contexts' =
               <<[context EXCEPT !.retry_delays = Append(@, delay)]>>
    /\ attempt' = attempt + 1
    /\ UNCHANGED <<config, batches, batch_progress, keyword_index,
                   processed_batches, state_file, loaded, pc, batch_num,
                   doc_pos, invocations, failures_left, health_skipped,
                   retry_time_passed, output_files>>

(***************************************************************************)
(* The Progress aggregate as the statuses of the store change              *)
(***************************************************************************)
\* a batch of one document ends with the document in `status`; update_progress
BatchOfOneEnds(status) ==
    /\ pc = "progress"
    /\ batch_num < Len(document_contexts)
    /\ batch_num' = batch_num + 1
    /\ document_contexts' =
           [document_contexts EXCEPT ![batch_num + 1].processing_status = status]
    /\ batch_progress' = update_progress(batch_progress, document_contexts',
                                         batch_num + 1, Len(document_contexts))
    /\ UNCHANGED <<config, batches, keyword_index, processed_batches,
                   state_file, loaded, pc, doc_pos, attempt, invocations,
                   failures_left, health_skipped, retry_time_passed,
                   output_files>>

(***************************************************************************)
(* claude_processing: a call of the CLI that ends without a response       *)
(***************************************************************************)
\* the substrings categorize_claude_error looks for
ErrorKeywords ==
    {"rate limit", "too many requests", "timeout", "too large",
     "content length", "auth", "unauthorized", "command not found",
     "no such file", "network", "connection", "invalid", "malformed"}

\* the keywords found in a text built from the words of S: a text with
\* "unauthorized" in it has "auth" in it
KeywordsIn(S) == IF "unauthorized" \in S THEN S \cup {"auth"} ELSE S

\* the locals of claude_processing when subprocess.run has returned
CliResult(error_msg, return_code) ==
    [error_msg |-> error_msg, return_code |-> return_code, last_error |-> <<>>]

\* the primary call returned without a usable response: the error text and
\* the return code are classified and kept in last_error
CliFails ==
    /\ pc = "cli"
    /\ LET result == document_contexts[1]
       IN  document_contexts' =
               <<[result EXCEPT !.last_error =
                     <<categorize_claude_error(result.error_msg,
                                               result.return_code)>>]>>
    /\ pc' = "classified"
    /\ UNCHANGED <<config, batches, batch_progress, keyword_index,
                   processed_batches, state_file, loaded, batch_num, doc_pos,
                   attempt, invocations, failures_left, health_skipped,
                   retry_time_passed, output_files>>

(***************************************************************************)
(* Release from quarantine and another run of the same instance            *)
(***************************************************************************)
\* between two runs: a quarantined document whose retry time has come is released
ReleaseFromQuarantine(d, due) ==
    /\ pc = "done"
    /\ check_quarantine_release(document_contexts[d], due)
    /\ document_contexts' =
           [document_contexts EXCEPT ![d] = release_from_quarantine(@)]
    /\ UNCHANGED <<config, batches, batch_progress, keyword_index,
                   processed_batches, state_file, loaded, pc, batch_num, doc_pos,
                   attempt, invocations, failures_left, health_skipped,
                   retry_time_passed, output_files>>

\* run_batch_processing called again on the instance, with the same list of
\* documents, up to create_batches: load_state replaces the store when it
\* succeeds, no context is added and batch_progress is kept.  The runs explored
\* are those that have a Pending document to work on or start after the retry
\* time of a quarantined document.
RunAgain(now) ==
    /\ pc \in {"done", "interrupted"}
    /\ LET state == load_state(state_file)
       IN  /\ loaded' = state
           /\ document_contexts' =
                  IF state.ok
                  THEN initialize_document_contexts(
                           state.document_contexts,
                           [i \in DOMAIN document_contexts |->
                               PdfInfoOf(document_contexts[i])])
                  ELSE document_contexts
           /\ keyword_index' =
                  IF state.ok THEN state.keyword_index ELSE keyword_index
           /\ processed_batches' =
                  IF state.ok THEN state.processed_batches ELSE processed_batches
           /\ batch_progress' =
                  IF state.ok /\ state.progress # <<>> THEN state.progress[1]
                  ELSE batch_progress
    /\ invocations' = [d \in DOMAIN document_contexts |-> 0]
    /\ batches' = <<>>
    /\ pc' = "start"
    /\ batch_num' = 0
    /\ doc_pos' = 0
    /\ attempt' = 0
    /\ health_skipped' = {}
    /\ retry_time_passed' = RetryTimePassed(document_contexts', now)
    /\ \/ \E d \in DOMAIN document_contexts :
              document_contexts[d].processing_status = "pending"
       \/ retry_time_passed' # {}
    /\ UNCHANGED <<config, state_file, failures_left, output_files>>

(***************************************************************************)
(* Specifications                                                          *)
(***************************************************************************)
SeqsUpTo(S, lo, hi) == UNION {[1..n -> S] : n \in lo..hi}

InitCommon ==
    /\ batches = <<>>
    /\ batch_progress = BatchProgress(Len(document_contexts))
    /\ pc = "start"
    /\ batch_num = 0
    /\ doc_pos = 0
    /\ attempt = 0
    /\ invocations = [d \in DOMAIN document_contexts |-> 0]
    /\ health_skipped = {}
    /\ retry_time_passed = {}
    /\ output_files = {}
    /\ keyword_index = <<>>
    /\ processed_batches = <<>>
    /\ state_file = NoStateFile
    /\ loaded = load_state(NoStateFile)

\* Context Stores the planner is given: fresh documents of every tier, documents
\* released for another try, and documents a previous run left terminal or
\* quarantined (quarantine_document always sets the status to skipped)
PlanTokens == {250, 4000, 9000, 20000}

PlanContexts ==
    {DocumentContext(t) : t \in PlanTokens}
    \cup {[DocumentContext(9000) EXCEPT !.retry_count = 1,
                                        !.consecutive_failures = 1,
                                        !.failure_pattern = <<"timeout">>,
                                        !.last_error_type = "timeout"],
          [DocumentContext(250) EXCEPT !.processing_status = "completed"],
          [DocumentContext(250) EXCEPT !.processing_status = "failed",
                                       !.retry_count = 2,
                                       !.consecutive_failures = 3,
                                       !.failure_pattern =
                                           <<"timeout", "unknown_error", "timeout">>,
                                       !.last_error_type = "timeout"],
          [DocumentContext(4000) EXCEPT !.processing_status = "skipped",
                                        !.quarantined = TRUE,
                                        !.quarantine_reason =
                                            <<"Critical system error", "cli_auth_error">>,
                                        !.consecutive_failures = 1,
                                        !.failure_pattern = <<"cli_auth_error">>,
                                        !.last_error_type = "cli_auth_error",
                                        !.next_retry_time = 2]}

PlanConfigs ==
    {Config(b, m, 3, FALSE, TRUE, a) :
        b \in {1, 2, 5}, m \in {DefaultMaxTokensPerRequest, 100000}, a \in BOOLEAN}

InitPlan ==
    /\ config \in PlanConfigs
    /\ document_contexts \in SeqsUpTo(PlanContexts, 0, MaxDocs)
    /\ failures_left = 0
    /\ InitCommon

NextPlan == CreateBatches

SpecPlan == InitPlan /\ [][NextPlan]_vars

\* the store of test_create_batches: small documents only, batch_size = 3
InitSmall ==
    /\ config \in {Config(3, DefaultMaxTokensPerRequest, 2, FALSE, TRUE, a) :
                      a \in BOOLEAN}
    /\ document_contexts \in
           SeqsUpTo({DocumentContext(t) : t \in {250, 300}}, 0, MaxSmallDocs)
    /\ failures_left = 0
    /\ InitCommon

SpecSmall == InitSmall /\ [][NextPlan]_vars

\* a run over freshly initialised documents
RunStores == {<<250>>, <<25000>>, <<250, 250>>, <<250, 25000>>}

RunConfigs ==
    {Config(3, DefaultMaxTokensPerRequest, r, s, TRUE, TRUE) :
        r \in {2, 4}, s \in BOOLEAN}

Init ==
    /\ config \in RunConfigs
    /\ \E store \in RunStores :
           document_contexts = [i \in DOMAIN store |-> DocumentContext(store[i])]
    /\ failures_left = MaxFailures
    /\ InitCommon

Next ==
    \/ CreateBatches
    \/ \E is_healthy \in BOOLEAN : StartBatch(is_healthy)
    \/ \E extract \in {"ok", "empty", "error"}, quality \in QualityScores,
          gate_hit \in BOOLEAN : StartDocument(extract, quality, gate_hit)
    \/ AttemptSucceeds
    \/ \E error_msg \in RunMessages : AttemptFails(error_msg)
    \/ FinishRun

Spec == Init /\ [][Next]_vars

\* a run and the run that resumes it from the state file
ResumePdfLists ==
    {<<PdfInfo(250, TRUE)>>,
     <<PdfInfo(250, TRUE), PdfInfo(25000, TRUE)>>,
     <<PdfInfo(250, TRUE), PdfInfo(0, FALSE)>>}

InitResume ==
    /\ config \in {Config(3, DefaultMaxTokensPerRequest, 2, s, TRUE, TRUE) :
                      s \in BOOLEAN}
    /\ \E pdf_list \in ResumePdfLists :
           document_contexts = initialize_document_contexts(<<>>, pdf_list)
    /\ failures_left = MaxResumeFailures
    /\ InitCommon

NextResume ==
    \/ Next
    \/ \E new_pdfs \in {<<>>, <<PdfInfo(250, TRUE)>>} : ResumeRun(new_pdfs)

SpecResume == InitResume /\ [][NextResume]_vars

\* populated Context Stores as runs leave them, saved and loaded again
StateConfig == Config(3, DefaultMaxTokensPerRequest, 2, TRUE, TRUE, TRUE)

InProgressContext ==
    [DocumentContext(250) EXCEPT !.processing_status = "in_progress",
                                 !.quality_score = 100]

FailedContext ==
    [RecordFailure(StateConfig,
         RecordFailure(StateConfig,
             RecordFailure(StateConfig, InProgressContext, 0, "timeout"),
             1, "unknown_error"),
         2, "timeout")
     EXCEPT !.processing_status = "failed"]

QuarantinedContext ==
    quarantine_document(
        RecordFailure(StateConfig, InProgressContext, 0, "cli_auth_error"),
        <<"Critical system error", "cli_auth_error">>)

StateContexts ==
    {DocumentContext(250),
     [InProgressContext EXCEPT !.processing_status = "completed"],
     [RecordFailure(StateConfig, InProgressContext, 0, "timeout")
         EXCEPT !.processing_status = "completed", !.last_error_type = "none"],
     [DocumentContext(250) EXCEPT !.processing_status = "skipped",
                                  !.content_filtered = TRUE,
                                  !.quality_score = 40],
     FailedContext,
     QuarantinedContext}

\* the snapshot written when the first batch was left at the health gate
PreviousSnapshot(contexts) ==
    LET fresh == [i \in DOMAIN contexts |->
                     DocumentContext(contexts[i].estimated_tokens)]
    IN  save_state(fresh, <<>>, <<>>,
                   update_progress(BatchProgress(Len(fresh)), fresh, 1, 1),
                   NoStateFile, NoWriteFailure(fresh))

\* the output directory after a run that worked on the store as one batch
PreviousOutputs(contexts) ==
    {AnalysisFile(d) : d \in {i \in DOMAIN contexts :
                                 contexts[i].processing_status = "completed"}}
        \cup {SummaryFile(1)}

InitState ==
    /\ config = StateConfig
    /\ document_contexts \in SeqsUpTo(StateContexts, 1, MaxStateDocs)
    /\ batches = <<[i \in DOMAIN document_contexts |-> i]>>
    /\ batch_progress = update_progress(BatchProgress(Len(document_contexts)),
                                        document_contexts, 1, 1)
    /\ keyword_index =
           [k \in TextKeywords |->
               {d \in DOMAIN document_contexts :
                   document_contexts[d].processing_status = "completed"}]
    /\ processed_batches = <<BatchKey(1, document_contexts)>>
    /\ state_file = PreviousSnapshot(document_contexts)
    /\ loaded = load_state(NoStateFile)
    /\ pc = "ready"
    /\ batch_num = 1
    /\ doc_pos = 0
    /\ attempt = 0
    /\ invocations = [d \in DOMAIN document_contexts |-> 0]
    /\ failures_left = 0
    /\ health_skipped = {}
    /\ retry_time_passed = {}
    /\ output_files = PreviousOutputs(document_contexts)

NextState ==
    \/ \E limit \in 0..(MaxStateDocs + 1) : SaveState(limit)
    \/ LoadState

SpecState == InitState /\ [][NextState]_vars

\* the end of a run that quarantined documents, releases, and further runs
ReleaseConfig == Config(3, DefaultMaxTokensPerRequest, 4, FALSE, TRUE, TRUE)

RECURSIVE RecordFailures(_, _, _, _)
RecordFailures(cfg, context, n, kinds) ==
    IF kinds = <<>> THEN context
    ELSE RecordFailures(cfg, RecordFailure(cfg, context, n, Head(kinds)),
                        n + 1, Tail(kinds))

ReleaseContexts ==
    {[InProgressContext EXCEPT !.processing_status = "completed"],
     quarantine_document(
         RecordFailures(ReleaseConfig, InProgressContext, 0, <<"cli_auth_error">>),
         <<"Critical system error", "cli_auth_error">>),
     quarantine_document(
         RecordFailures(ReleaseConfig, InProgressContext, 0,
                        <<"rate_limit", "rate_limit", "rate_limit">>),
         <<"Repeated errors", "rate_limit">>),
     quarantine_document(
         RecordFailures(ReleaseConfig, InProgressContext, 0,
                        <<"timeout", "unknown_error", "timeout",
                          "unknown_error", "timeout">>),
         <<"Too many consecutive failures">>)}

InitRelease ==
    /\ config = ReleaseConfig
    /\ document_contexts \in SeqsUpTo(ReleaseContexts, 1, MaxReleaseDocs)
    /\ batches = <<[i \in DOMAIN document_contexts |-> i]>>
    /\ batch_progress = update_progress(BatchProgress(Len(document_contexts)),
                                        document_contexts, 1, 1)
    /\ keyword_index = [k \in TextKeywords |-> DOMAIN document_contexts]
    /\ processed_batches = <<BatchKey(1, document_contexts)>>
    /\ state_file = save_state(document_contexts, keyword_index,
                               processed_batches, batch_progress, NoStateFile,
                               NoWriteFailure(document_contexts))
    /\ loaded = load_state(NoStateFile)
    /\ pc = "done"
    /\ batch_num = 1
    /\ doc_pos = 0
    /\ attempt = 0
    /\ invocations = [d \in DOMAIN document_contexts |-> 0]
    /\ failures_left = MaxReleaseFailures
    /\ health_skipped = {}
    /\ retry_time_passed = {}
    /\ output_files = PreviousOutputs(document_contexts)

\* the further runs are explored with a healthy service, readable documents of
\* good quality, and failures by time-out and rate limit
NextRelease ==
    \/ \E d \in DOMAIN document_contexts, due \in BOOLEAN :
           ReleaseFromQuarantine(d, due)
    \/ \E now \in RunStartHours : RunAgain(now)
    \/ CreateBatches
    \/ StartBatch(TRUE)
    \/ StartDocument("ok", 100, FALSE)
    \/ AttemptSucceeds
    \/ \E error_msg \in {{"timeout"}, {"rate limit"}} : AttemptFails(error_msg)
    \/ FinishRun

SpecRelease == InitRelease /\ [][NextRelease]_vars

\* a document quarantined after five failures that is released and fails again,
\* run after run
PatternContext ==
    quarantine_document(
        RecordFailures(ReleaseConfig, InProgressContext, 0,
                       <<"timeout", "unknown_error", "timeout",
                         "unknown_error", "timeout">>),
        <<"Too many consecutive failures">>)

InitPattern ==
    /\ config = ReleaseConfig
    /\ document_contexts \in
           {<<PatternContext>>,
            <<PatternContext,
              [InProgressContext EXCEPT !.processing_status = "completed"]>>}
    /\ batches = <<[i \in DOMAIN document_contexts |-> i]>>
    /\ batch_progress = update_progress(BatchProgress(Len(document_contexts)),
                                        document_contexts, 1, 1)
    /\ keyword_index = [k \in TextKeywords |-> DOMAIN document_contexts]
    /\ processed_batches = <<BatchKey(1, document_contexts)>>
    /\ state_file = save_state(document_contexts, keyword_index,
                               processed_batches, batch_progress, NoStateFile,
                               NoWriteFailure(document_contexts))
    /\ loaded = load_state(NoStateFile)
    /\ pc = "done"
    /\ batch_num = 1
    /\ doc_pos = 0
    /\ attempt = 0
    /\ invocations = [d \in DOMAIN document_contexts |-> 0]
    /\ failures_left = MaxPatternFailures
    /\ health_skipped = {}
    /\ retry_time_passed = {}
    /\ output_files = PreviousOutputs(document_contexts)

SpecPattern == InitPattern /\ [][NextRelease]_vars

\* the backoff delays of one retry loop whose attempts all fail with one kind
BackoffConfigs ==
    {BackoffConfig(DelayUnit, 30 * DelayUnit, 20),
     BackoffConfig(DelayUnit \div 2, 8 * DelayUnit, 15),
     BackoffConfig(3 * DelayUnit, 2 * DelayUnit, 20)}

BackoffErrors ==
    {categorize_claude_error(error_msg, 1) :
        error_msg \in {{"rate limit"}, {"timeout"}, {"network"}}}

InitBackoff ==
    /\ config \in BackoffConfigs
    /\ \E claude_error \in BackoffErrors,
          retry_strategy \in {"aggressive", "standard", "conservative"},
          consecutive_failures \in {1, 4} :
           document_contexts =
               <<RetryContext(claude_error.error_type, retry_strategy,
                              consecutive_failures)>>
    /\ batches = <<<<1>>>>
    /\ batch_progress = BatchProgress(1)
    /\ keyword_index = <<>>
    /\ processed_batches = <<>>
    /\ state_file = NoStateFile
    /\ loaded = load_state(NoStateFile)
    /\ pc = "backoff"
    /\ batch_num = 1
    /\ doc_pos = 1
    /\ attempt = 0
    /\ invocations = <<0>>
    /\ failures_left = 0
    /\ health_skipped = {}
    /\ retry_time_passed = {}
    /\ output_files = {}

NextBackoff ==
    \E claude_error \in BackoffErrors, jitter \in {10, 30} :
        /\ claude_error.error_type = document_contexts[1].last_error_type
        /\ SleepBeforeRetry(claude_error, jitter)

SpecBackoff == InitBackoff /\ [][NextBackoff]_vars

\* the Progress aggregate of stores of 0..MaxProgressDocs documents
InitProgress ==
    /\ config = StateConfig
    /\ \E n \in 0..MaxProgressDocs :
           document_contexts = [i \in 1..n |-> DocumentContext(250)]
    /\ batches = [i \in DOMAIN document_contexts |-> <<i>>]
    /\ batch_progress =
           [BatchProgress(Len(document_contexts)) EXCEPT
               !.total_batches = Len(document_contexts)]
    /\ keyword_index = <<>>
    /\ processed_batches = <<>>
    /\ state_file = NoStateFile
    /\ loaded = load_state(NoStateFile)
    /\ pc = "progress"
    /\ batch_num = 0
    /\ doc_pos = 0
    /\ attempt = 0
    /\ invocations = [d \in DOMAIN document_contexts |-> 0]
    /\ failures_left = 0
    /\ health_skipped = {}
    /\ retry_time_passed = {}
    /\ output_files = {}

NextProgress ==
    \E status \in {"completed", "failed", "skipped"} : BatchOfOneEnds(status)

SpecProgress == InitProgress /\ [][NextProgress]_vars

\* error texts with up to MaxKeywords of the keywords, and the return codes
\* the rules name next to codes they do not
ErrorMessages ==
    {KeywordsIn(S) : S \in {T \in SUBSET ErrorKeywords : Cardinality(T) <= MaxKeywords}}

ReturnCodes == {0, 1, 2, 124, 127, 401}

InitClassify ==
    /\ config = StateConfig
    /\ \E error_msg \in ErrorMessages, return_code \in ReturnCodes :
           document_contexts = <<CliResult(error_msg, return_code)>>
    /\ batches = <<<<1>>>>
    /\ batch_progress = BatchProgress(1)
    /\ keyword_index = <<>>
    /\ processed_batches = <<>>
    /\ state_file = NoStateFile
    /\ loaded = load_state(NoStateFile)
    /\ pc = "cli"
    /\ batch_num = 1
    /\ doc_pos = 1
    /\ attempt = 0
    /\ invocations = <<1>>
    /\ failures_left = 0
    /\ health_skipped = {}
    /\ retry_time_passed = {}
    /\ output_files = {}

NextClassify == CliFails

SpecClassify == InitClassify /\ [][NextClassify]_vars

\* runs that may be interrupted in the middle of a document, further runs of
\* the same instance, and the run of a new process that resumes from the
\* state file
InitInterrupt ==
    /\ config = StateConfig
    /\ \E n \in 1..MaxInterruptDocs :
           document_contexts = [i \in 1..n |-> DocumentContext(250)]
    /\ failures_left = MaxInterruptFailures
    /\ InitCommon

NextInterrupt ==
    \/ CreateBatches
    \/ StartBatch(TRUE)
    \/ StartDocument("ok", 100, FALSE)
    \/ AttemptSucceeds
    \/ AttemptFails({"timeout"})
    \/ Interrupt
    \/ FinishRun
    \/ RunAgain(0)
    \/ ResumeRun(<<>>)

SpecInterrupt == InitInterrupt /\ [][NextInterrupt]_vars

(***************************************************************************)
(* Properties of the batch planner (SpecPlan, SpecSmall)                   *)
(***************************************************************************)
\* the state in which create_batches has just returned
Planned == pc = "batch" /\ batch_num = 0

BatchTokens(b) ==
    SumSeq([k \in 1..Len(b) |-> document_contexts[b[k]].estimated_tokens])

\* the tier of a batch: all its documents come from one complexity group
BatchTier(b) ==
    LET c == document_contexts[b[1]]
    IN  IF c.retry_count > 0 THEN "retried"
        ELSE IF c.estimated_tokens < 5000 THEN "small"
        ELSE IF c.estimated_tokens < 20000 THEN "medium"
        ELSE "large"

TierTokenBudget(b) ==
    CASE BatchTier(b) = "large" -> config.max_tokens_per_request \div 2
      [] BatchTier(b) = "retried" -> document_contexts[b[1]].estimated_tokens + 1000
      [] OTHER -> config.max_tokens_per_request

TierCountCap(b) ==
    CASE BatchTier(b) = "small" -> 10
      [] BatchTier(b) = "medium" -> config.batch_size
      [] BatchTier(b) = "large" -> 2
      [] OTHER -> 1

BatchSizes == [k \in 1..Len(batches) |-> Len(batches[k])]

\* C1: after create_batches every document that is pending and not quarantined
\* is in exactly one batch exactly once, and every other document is in none.
C1_PendingExactlyOnce ==
    Planned =>
        \A d \in DOMAIN document_contexts :
            Count(Flatten(batches), d) =
                IF /\ document_contexts[d].processing_status = "pending"
                   /\ ~document_contexts[d].quarantined
                THEN 1 ELSE 0

C1_Witness ==
    /\ Planned
    /\ Len(batches) >= 2
    /\ \E d \in DOMAIN document_contexts : document_contexts[d].quarantined
    /\ \E d \in DOMAIN document_contexts :
           document_contexts[d].processing_status = "completed"
    /\ \E d \in DOMAIN document_contexts :
           document_contexts[d].processing_status = "pending"

\* C2 as stated: every batch of the adaptive planner holds at most its tier's
\* token budget, also when a single document is larger than the budget.
C2_Original ==
    (Planned /\ config.adaptive_batching) =>
        \A k \in DOMAIN batches : BatchTokens(batches[k]) <= TierTokenBudget(batches[k])

\* C2 amended: a batch of the adaptive planner holds at most its tier's token
\* budget unless it consists of one document that alone exceeds the budget.
C2_Amended ==
    (Planned /\ config.adaptive_batching) =>
        \A k \in DOMAIN batches :
            \/ BatchTokens(batches[k]) <= TierTokenBudget(batches[k])
            \/ Len(batches[k]) = 1

\* a batch closed by the token budget, and an oversize document in a batch of its own
C2_Witness ==
    /\ Planned
    /\ config.adaptive_batching
    /\ \E k \in DOMAIN batches :
           /\ k + 1 \in DOMAIN batches
           /\ BatchTier(batches[k]) = BatchTier(batches[k + 1])
           /\ Len(batches[k]) >= 2
           /\ Len(batches[k]) < TierCountCap(batches[k])
           /\ BatchTokens(batches[k]) <= TierTokenBudget(batches[k])
    /\ \E k \in DOMAIN batches :
           /\ Len(batches[k]) = 1
           /\ BatchTokens(batches[k]) > TierTokenBudget(batches[k])

C4_Original ==
    (Planned /\ config.batch_size = 3) =>
        /\ Len(document_contexts) = 7 => BatchSizes = <<3, 3, 1>>
        /\ Len(document_contexts) = 5 => BatchSizes = <<3, 2>>

(***************************************************************************)
(* Properties of the retry loop and of the run (Spec)                      *)
(***************************************************************************)
Docs == DOMAIN document_contexts

RateLimit3 == <<"rate_limit", "rate_limit", "rate_limit">>

RetryableKinds == {"rate_limit", "timeout", "network_error", "unknown_error"}

\* C5: in every state every document has 0 <= retry_count <= max_retries.
C5_RetryBound ==
    \A d \in Docs :
        /\ document_contexts[d].retry_count >= 0
        /\ document_contexts[d].retry_count <= config.max_retries

\* a run that ended with a document that failed on its last allowed attempt
C5_Witness ==
    /\ pc = "done"
    /\ \E d \in Docs :
           /\ document_contexts[d].processing_status = "failed"
           /\ invocations[d] = config.max_retries + 1
           /\ document_contexts[d].retry_count = config.max_retries

\* C6 as stated: with max_retries = 4 a document whose first three attempts fail
\* with RateLimit goes on to a fourth attempt, and when that succeeds it is
\* Completed with retry_count = 3.
C6_Original ==
    \A d \in Docs :
        (/\ config.max_retries = 4
         /\ invocations[d] >= 3
         /\ Len(document_contexts[d].failure_pattern) >= 3
         /\ SubSeq(document_contexts[d].failure_pattern, 1, 3) = RateLimit3)
        => /\ ~document_contexts[d].quarantined
           /\ document_contexts[d].processing_status \in {"in_progress", "completed"}
           /\ document_contexts[d].processing_status = "completed"
                  => document_contexts[d].retry_count = 3

\* C6 amended: with max_retries = 4 a fresh document whose first three attempts
\* fail with RateLimit is quarantined on the third failure: its status is
\* Skipped, retry_count is 2 and there is no fourth attempt.
C6_Amended ==
    \A d \in Docs :
        (/\ config.max_retries = 4
         /\ invocations[d] >= 3
         /\ Len(document_contexts[d].failure_pattern) >= 3
         /\ SubSeq(document_contexts[d].failure_pattern, 1, 3) = RateLimit3)
        => /\ document_contexts[d].quarantined
           /\ document_contexts[d].processing_status = "skipped"
           /\ document_contexts[d].retry_count = 2
           /\ invocations[d] = 3

C6_Witness ==
    \E d \in Docs :
        /\ config.max_retries = 4
        /\ invocations[d] = 3
        /\ document_contexts[d].failure_pattern = RateLimit3
        /\ document_contexts[d].quarantined

\* C7 as stated: a document whose first attempt fails with AuthError ends Failed
\* after exactly one call of the Analysis Service.
C7_Original ==
    \A d \in Docs :
        (/\ invocations[d] >= 1
         /\ document_contexts[d].failure_pattern # <<>>
         /\ document_contexts[d].failure_pattern[1] = "cli_auth_error")
        => /\ document_contexts[d].processing_status = "failed"
           /\ invocations[d] = 1

\* C7 amended: a document whose first attempt fails with AuthError is quarantined
\* at once, with status Skipped, after exactly one call of the Analysis Service.
C7_Amended ==
    \A d \in Docs :
        (/\ invocations[d] >= 1
         /\ document_contexts[d].failure_pattern # <<>>
         /\ document_contexts[d].failure_pattern[1] = "cli_auth_error")
        => /\ document_contexts[d].processing_status = "skipped"
           /\ document_contexts[d].quarantined
           /\ document_contexts[d].quarantine_reason =
                  <<"Critical system error", "cli_auth_error">>
           /\ invocations[d] = 1

C7_Witness ==
    \E d \in Docs :
        /\ invocations[d] = 1
        /\ document_contexts[d].failure_pattern = <<"cli_auth_error">>
        /\ document_contexts[d].last_error_type = "cli_auth_error"
        /\ pc = "done"

\* C8 as stated: a document is not quarantined after any of its first four
\* failures of retryable kinds, and is quarantined at the fifth.
C8_Original ==
    \A d \in Docs :
        /\ (/\ document_contexts[d].consecutive_failures <= 4
            /\ Range(document_contexts[d].failure_pattern) \subseteq RetryableKinds)
           => ~document_contexts[d].quarantined
        /\ document_contexts[d].consecutive_failures >= 5
           => document_contexts[d].quarantined

\* C8 amended: a document is quarantined at its fifth consecutive failure at the
\* latest; the consecutive-failures trigger fires at the fifth failure and not
\* before, and a quarantine before the fifth failure comes from another trigger
\* (a systemic error kind, the same kind in the last three failures, or a
\* success probability under 0.1).
C8_Amended ==
    \A d \in Docs :
        /\ document_contexts[d].consecutive_failures >= 5
           => document_contexts[d].quarantined
        /\ (/\ document_contexts[d].quarantined
            /\ document_contexts[d].quarantine_reason = <<"Too many consecutive failures">>)
           => document_contexts[d].consecutive_failures = 5
        /\ (/\ document_contexts[d].quarantined
            /\ document_contexts[d].consecutive_failures < 5)
           => document_contexts[d].quarantine_reason[1] \in
                  {"Critical system error", "Repeated errors",
                   "Very low success probability"}

C8_Witness ==
    \E d \in Docs :
        /\ document_contexts[d].consecutive_failures = 5
        /\ invocations[d] = 5
        /\ document_contexts[d].quarantined
        /\ document_contexts[d].quarantine_reason = <<"Too many consecutive failures">>

\* C9 as stated: when the last three entries of failure_pattern are all RateLimit
\* after a failed attempt, the document is quarantined on that attempt with the
\* reason "Repeated rate_limit errors".
C9_Original ==
    \A d \in Docs :
        (/\ Len(document_contexts[d].failure_pattern) >= 3
         /\ LastN(document_contexts[d].failure_pattern, 3) = RateLimit3)
        => /\ document_contexts[d].quarantined
           /\ invocations[d] = Len(document_contexts[d].failure_pattern)
           /\ document_contexts[d].quarantine_reason = <<"Repeated errors", "rate_limit">>

\* C9 amended: when the last three entries of failure_pattern are all RateLimit
\* after a failed attempt, the document is quarantined on that attempt; the
\* reason is "Repeated rate_limit errors" when consecutive_failures is under 5
\* and "Too many consecutive failures" otherwise.
C9_Amended ==
    \A d \in Docs :
        (/\ Len(document_contexts[d].failure_pattern) >= 3
         /\ LastN(document_contexts[d].failure_pattern, 3) = RateLimit3)
        => /\ document_contexts[d].quarantined
           /\ invocations[d] = Len(document_contexts[d].failure_pattern)
           /\ document_contexts[d].quarantine_reason =
                  IF document_contexts[d].consecutive_failures < 5
                  THEN <<"Repeated errors", "rate_limit">>
                  ELSE <<"Too many consecutive failures">>

\* three RateLimit failures after an earlier failure of another kind
C9_Witness ==
    \E d \in Docs :
        /\ Len(document_contexts[d].failure_pattern) = 4
        /\ LastN(document_contexts[d].failure_pattern, 3) = RateLimit3
        /\ document_contexts[d].quarantine_reason = <<"Repeated errors", "rate_limit">>

\* C10 as stated: when the health probe before a batch reports unhealthy and
\* skip_failed is set, every document of the batch ends Skipped and the Analysis
\* Service is not called for the batch.
C10_Original ==
    \A k \in health_skipped :
        \A i \in DOMAIN batches[k] :
            /\ document_contexts[batches[k][i]].processing_status = "skipped"
            /\ invocations[batches[k][i]] = 0

(***************************************************************************)
(* Properties of the document life cycle                                   *)
(***************************************************************************)
TerminalStatuses == {"completed", "failed", "skipped"}

\* `to` is reached from `from` along the graph
\* Pending -> InProgress -> {Completed, Failed, Skipped}; one action of the
\* model may take several steps of it
AllowedStatusStep(from, to) ==
    \/ from = to
    \/ from = "pending" /\ to \in {"in_progress"} \cup TerminalStatuses
    \/ from = "in_progress" /\ to \in TerminalStatuses

\* C11 as stated: in every step of a run the status of every document stays or
\* moves along Pending -> InProgress -> {Completed, Failed, Skipped}; a status
\* of Completed, Failed or Skipped never changes again and no document goes
\* back to Pending.
C11_Original ==
    [][\A d \in Docs :
          AllowedStatusStep(document_contexts[d].processing_status,
                            document_contexts'[d].processing_status)]_vars

\* C12 as stated: when run_batch_processing has returned, every document of the
\* Context Store is Completed, Failed or Skipped, whatever the service calls and
\* the health probes did.
C12_Original ==
    pc = "done" =>
        \A d \in Docs : document_contexts[d].processing_status \in TerminalStatuses

(***************************************************************************)
(* Properties of a resumed run (SpecResume)                                *)
(***************************************************************************)
LoadedDocs == DOMAIN loaded.document_contexts

\* C13: in a resumed run a document that load_state returned as Completed,
\* Failed or Skipped is in no batch, the Analysis Service is never called for
\* it, and its fields stay those of the loaded snapshot up to the end of the run.
C13_LoadedTerminalUntouched ==
    loaded.ok =>
        \A d \in LoadedDocs :
            loaded.document_contexts[d].processing_status \in TerminalStatuses
            => /\ Count(Flatten(batches), d) = 0
               /\ invocations[d] = 0
               /\ document_contexts[d] = loaded.document_contexts[d]

\* the end of a resumed run that processed a document while two loaded
\* documents were terminal, one of them Completed after a failed attempt
C13_Witness ==
    /\ pc = "done"
    /\ loaded.ok
    /\ \E d \in Docs : invocations[d] > 0
    /\ \E d \in LoadedDocs :
           /\ loaded.document_contexts[d].processing_status = "completed"
           /\ loaded.document_contexts[d].failure_pattern # <<>>
    /\ \E d \in LoadedDocs :
           loaded.document_contexts[d].processing_status \in {"failed", "skipped"}

(***************************************************************************)
(* Properties of the state file (SpecState)                                *)
(***************************************************************************)
\* C14 as stated: for every populated Context Store, documents with a last
\* error kind and quarantined documents included, a save_state that is not
\* interrupted followed by load_state in a fresh instance succeeds and gives
\* document contexts, keyword index and processed_batches equal to the saved ones.
C14_Original ==
    pc = "reloaded" =>
        /\ loaded.ok
        /\ loaded.document_contexts = document_contexts
        /\ loaded.keyword_index = keyword_index
        /\ loaded.processed_batches = processed_batches

\* C15 as stated: whenever save_state was called, interrupted or not, the state
\* file is a snapshot written to its end and a later load_state succeeds.
C15_Original ==
    /\ state_file.exists => state_file.complete
    /\ pc \in {"reloaded", "recovered"} => loaded.ok

(***************************************************************************)
(* Properties of the error handling (Spec)                                 *)
(***************************************************************************)
SkipOnFailureKinds == {"cli_not_found", "cli_auth_error", "content_too_large"}

\* C16 as stated: with skip_failed set, a document whose attempt failed with
\* kind ServiceNotFound, AuthError or ContentTooLarge is Skipped, not Failed.
C16_Original ==
    \A d \in Docs :
        (/\ config.skip_failed
         /\ invocations[d] > 0
         /\ document_contexts[d].last_error_type \in SkipOnFailureKinds)
        => document_contexts[d].processing_status = "skipped"

\* C17 as stated: a document whose text extraction raises, so that the Analysis
\* Service is never called for it, is left Failed with an error recorded and
\* with retry_count equal to max_retries.
C17_Original ==
    \A d \in Docs :
        (/\ invocations[d] = 0
         /\ document_contexts[d].processing_status = "failed"
         /\ document_contexts[d].last_error_type = "invalid_content")
        => document_contexts[d].retry_count = config.max_retries

\* C18 as stated: when a call of the Analysis Service exceeded its hard timeout,
\* the failed attempt is recorded with the kind Timeout: last_error_type is
\* Timeout and the entry appended to failure_pattern is Timeout.
C18_Original ==
    \A d \in Docs :
        (/\ document_contexts[d].last_error =
                ErrorText("Claude processing failed", TimedOutMessage)
         /\ document_contexts[d].processing_status # "completed")
        => /\ document_contexts[d].last_error_type = "timeout"
           /\ document_contexts[d].failure_pattern # <<>>
           /\ document_contexts[d].failure_pattern[
                  Len(document_contexts[d].failure_pattern)] = "timeout"

(***************************************************************************)
(* Properties of the quarantine (SpecRelease)                              *)
(***************************************************************************)
\* C19: in every state a document has next_retry_time set if and only if it is
\* quarantined, and the retry time of a quarantined document is later than the
\* quarantine timestamp by min(2^consecutive_failures, 24) hours, which is at
\* least one hour.
C19_RetryTimeIffQuarantined ==
    \A d \in Docs :
        /\ document_contexts[d].next_retry_time # 0
               <=> document_contexts[d].quarantined
        /\ document_contexts[d].quarantined
           => /\ document_contexts[d].next_retry_time =
                     Min(Pow2(document_contexts[d].consecutive_failures), 24)
              /\ document_contexts[d].next_retry_time > 0

\* a document quarantined by the run with the delay at its cap of 24 hours,
\* beside a document that was released
C19_Witness ==
    /\ \E d \in Docs :
           /\ invocations[d] > 0
           /\ document_contexts[d].quarantined
           /\ document_contexts[d].consecutive_failures = 5
           /\ document_contexts[d].next_retry_time = 24
    /\ \E d \in Docs :
           /\ ~document_contexts[d].quarantined
           /\ document_contexts[d].quarantine_reason # <<>>
           /\ document_contexts[d].next_retry_time = 0

\* C20: a step that releases a quarantined document leaves it not quarantined
\* and Pending, with consecutive_failures = max(0, consecutive_failures - 1):
\* one less than before and not below zero.
C20_ReleaseDecrements ==
    [][\A d \in Docs :
          (document_contexts[d].quarantined /\ ~document_contexts'[d].quarantined)
          => /\ document_contexts'[d].processing_status = "pending"
             /\ document_contexts'[d].consecutive_failures =
                    Max(0, document_contexts[d].consecutive_failures - 1)
             /\ document_contexts'[d].consecutive_failures =
                    document_contexts[d].consecutive_failures - 1
             /\ document_contexts'[d].consecutive_failures >= 0]_vars

\* released documents: one whose counter went from 1 to 0, one from 5 to 4
C20_Witness ==
    /\ pc = "done"
    /\ \E d \in Docs :
           /\ ~document_contexts[d].quarantined
           /\ document_contexts[d].processing_status = "pending"
           /\ document_contexts[d].failure_pattern = <<"cli_auth_error">>
           /\ document_contexts[d].consecutive_failures = 0
    /\ \E d \in Docs :
           /\ ~document_contexts[d].quarantined
           /\ document_contexts[d].processing_status = "pending"
           /\ Len(document_contexts[d].failure_pattern) = 5
           /\ document_contexts[d].consecutive_failures = 4

(***************************************************************************)
(* C21: a quarantined document whose next_retry_time has passed when a run *)
(* starts is released by the run and placed in a batch: once the batches   *)
(* of the run are planned, every such document is in one of them.          *)
(***************************************************************************)
C21_Original ==
    pc \in {"batch", "document", "attempt", "done"}
        => \A d \in retry_time_passed : d \in Range(Flatten(batches))

(***************************************************************************)
(* C22: immediately after a successful document attempt the Progress       *)
(* aggregate's consecutive_failures is 0 and a health status that was      *)
(* degraded before the success is healthy.                                 *)
(***************************************************************************)
SuccessfulAttempt ==
    /\ pc = "attempt"
    /\ document_contexts'[CurrentDoc].processing_status = "completed"

C22_SuccessResetsHealth ==
    [][SuccessfulAttempt =>
          /\ batch_progress'.consecutive_failures = 0
          /\ batch_progress.claude_health_status = "degraded"
                 => batch_progress'.claude_health_status = "healthy"]_vars

\* the first document of the batch exhausted its retries (consecutive_failures
\* of the aggregate became 1), the second was rate limited (degraded) and then
\* succeeded
C22_Witness ==
    /\ Len(document_contexts) = 2
    /\ document_contexts[1].processing_status = "failed"
    /\ document_contexts[1].retry_count = config.max_retries
    /\ document_contexts[2].processing_status = "completed"
    /\ document_contexts[2].failure_pattern = <<"rate_limit">>
    /\ batches = <<<<1, 2>>>>
    /\ batch_progress.rate_limit_hits = 1
    /\ batch_progress.consecutive_failures = 0
    /\ batch_progress.claude_health_status = "healthy"

(***************************************************************************)
(* C23: while a document of a batch is still being worked on, no output    *)
(* file of a document of that batch and no summary of that batch has been  *)
(* written (the files are written when the whole batch has finished).      *)
(***************************************************************************)
C23_Original ==
    pc \in {"document", "attempt"} =>
        /\ \A k \in DOMAIN CurrentBatch :
               AnalysisFile(CurrentBatch[k]) \notin output_files
        /\ SummaryFile(batch_num) \notin output_files

(***************************************************************************)
(* C24: while a document of a batch is waiting in its backoff delay, a     *)
(* document of the same batch that is not finished can start or continue:  *)
(* a step of the run that changes the context of that other document is    *)
(* possible.                                                               *)
(***************************************************************************)
\* the retry loop is between a failed attempt and the next one, where
\* time.sleep(delay) runs
BackoffDelay == pc = "attempt" /\ attempt > 0

OtherDocumentActs ==
    \E k \in DOMAIN CurrentBatch :
        /\ k # doc_pos
        /\ document_contexts'[CurrentBatch[k]] # document_contexts[CurrentBatch[k]]

C24_Original ==
    (/\ BackoffDelay
     /\ \E k \in DOMAIN CurrentBatch :
            /\ k # doc_pos
            /\ document_contexts[CurrentBatch[k]].processing_status
                   \in {"pending", "in_progress"})
        => ENABLED (Next /\ OtherDocumentActs)

(***************************************************************************)
(* C25: ignoring jitter, for a fixed error kind and configuration the      *)
(* backoff delay does not decrease with the attempt number, and once it    *)
(* has reached the cap retry_delay_max it stays equal; the same holds for  *)
(* the delay slept under a fixed retry strategy.                           *)
(***************************************************************************)
C25_BackoffMonotone ==
    pc = "backoff" =>
        LET context == document_contexts[1]
            kind == context.last_error_type
            claude_error == CHOOSE e \in BackoffErrors : e.error_type = kind
            delay(n) == ExponentialDelay(config, n, kind)
            slept(n) == AppliedDelay(context, claude_error, delay(n))
        IN  \A n \in 0..attempt :
                /\ delay(n + 1) >= delay(n)
                /\ slept(n + 1) >= slept(n)
                /\ delay(n) = config.retry_delay_max
                       => delay(n + 1) = delay(n) /\ slept(n + 1) = slept(n)

\* a loop whose delay doubled at first and then reached the cap exactly
C25_Witness ==
    /\ pc = "backoff"
    /\ attempt = MaxBackoffAttempts
    /\ LET kind == document_contexts[1].last_error_type
       IN  /\ ExponentialDelay(config, 1, kind) = 2 * ExponentialDelay(config, 0, kind)
           /\ ExponentialDelay(config, 3, kind) < config.retry_delay_max
           /\ ExponentialDelay(config, 4, kind) = config.retry_delay_max
           /\ BaseDelay(config, kind) * Pow2(5) > config.retry_delay_max
    /\ Len(document_contexts[1].retry_delays) = MaxBackoffAttempts

TierRank(tier) ==
    CASE tier = "small" -> 1
      [] tier = "medium" -> 2
      [] tier = "large" -> 3
      [] OTHER -> 4

DocTierRank(d) == TierRank(BatchTier(<<d>>))

C27_RetriedAloneAndLast ==
    (Planned /\ config.adaptive_batching) =>
        /\ \A d \in DOMAIN document_contexts :
               (/\ document_contexts[d].processing_status = "pending"
                /\ document_contexts[d].retry_count > 0)
                   => \E k \in DOMAIN batches : batches[k] = <<d>>
        /\ \A k, j \in DOMAIN batches :
               k < j =>
                   \A a \in Range(batches[k]), b \in Range(batches[j]) :
                       DocTierRank(a) <= DocTierRank(b)

\* two retried documents of medium size after a small, a medium and a large
\* batch; without the retries the token budget would hold both in one batch
C27_Witness ==
    /\ Planned
    /\ config.adaptive_batching
    /\ config.max_tokens_per_request = 100000
    /\ config.batch_size = 5
    /\ Len(batches) = 4
    /\ BatchTier(batches[1]) = "small"
    /\ BatchTier(batches[2]) = "large"
    /\ BatchTier(batches[3]) = "retried" /\ Len(batches[3]) = 1
    /\ BatchTier(batches[4]) = "retried" /\ Len(batches[4]) = 1
    /\ document_contexts[batches[3][1]].estimated_tokens
           < document_contexts[batches[2][1]].estimated_tokens

(***************************************************************************)
(* C28: failure_pattern never holds more than 10 entries; a failed attempt *)
(* appends the kind of its failure and, beyond 10 entries, drops the       *)
(* oldest one, and nothing else changes the list: it holds the kinds of    *)
(* the most recent failures in chronological order, across runs and        *)
(* releases.                                                               *)
(***************************************************************************)
FailedAttemptOn(d) ==
    /\ pc = "attempt"
    /\ CurrentDoc = d
    /\ document_contexts'[d].processing_status # "completed"

\* the kind of the failure whose message the attempt recorded in last_error
RecordedKind(context) ==
    categorize_claude_error(context.last_error[2], 1).error_type

C28_PatternIsRingBuffer ==
    [][\A d \in DOMAIN document_contexts :
          LET old == document_contexts[d].failure_pattern
              new == document_contexts'[d].failure_pattern
          IN  /\ Len(new) <= 10
              /\ IF FailedAttemptOn(d)
                 THEN new = LastN(Append(old, RecordedKind(document_contexts'[d])),
                                  10)
                 ELSE new = old]_vars

\* eleven failures: the first one has been dropped, the others are in order
C28_Witness ==
    /\ document_contexts[1].failure_pattern =
           <<"unknown_error", "timeout", "unknown_error", "timeout",
             "rate_limit", "timeout", "rate_limit", "rate_limit", "timeout",
             "timeout">>
    /\ failures_left = MaxPatternFailures - 6

(***************************************************************************)
(* C29: a failed attempt for which a quarantine trigger holds leaves the   *)
(* document quarantined with status Skipped and ends the retry loop, also  *)
(* when the error is not retryable or the attempt was the last one         *)
(* allowed; a quarantined document is never attempted.                     *)
(***************************************************************************)
\* the triggers, read on the context as the failed attempt left it
QuarantineTrigger(context) ==
    LET kind == RecordedKind(context)
        pattern == context.failure_pattern
    IN  \/ kind \in {"cli_not_found", "cli_auth_error"}
        \/ context.consecutive_failures >= 5
        \/ /\ Len(pattern) >= 3
           /\ \A i \in (Len(pattern) - 2)..Len(pattern) : pattern[i] = kind
        \/ context.success_probability < 10 * ProbabilityUnit

C29_QuarantineFirst ==
    [][/\ \A d \in DOMAIN document_contexts :
             (FailedAttemptOn(d) /\ QuarantineTrigger(document_contexts'[d]))
                 => /\ document_contexts'[d].quarantined
                    /\ document_contexts'[d].processing_status = "skipped"
                    /\ pc' # "attempt"
       \* the attempt that quarantined a document was the last one made on it
       /\ \A d \in DOMAIN document_contexts :
             document_contexts'[d].quarantined
                 => invocations'[d] = document_contexts'[d].retry_count + 1
      ]_vars

\* one document quarantined on its last allowed attempt (three time-outs with
\* max_retries = 2), another on a non-retryable error (cli_auth_error)
C29_Witness ==
    /\ Len(document_contexts) = 2
    /\ config.max_retries = 2
    /\ document_contexts[1].quarantined
    /\ document_contexts[1].processing_status = "skipped"
    /\ document_contexts[1].retry_count = config.max_retries
    /\ document_contexts[1].failure_pattern = <<"timeout", "timeout", "timeout">>
    /\ document_contexts[2].quarantined
    /\ document_contexts[2].processing_status = "skipped"
    /\ document_contexts[2].failure_pattern = <<"cli_auth_error">>
    /\ invocations = <<3, 1>>

(***************************************************************************)
(* C30: a document the pre-filter rejected is never passed to the Analysis *)
(* Service and ends the run with status Skipped, whatever skip_failed is.  *)
(***************************************************************************)
C30_Original ==
    \A d \in DOMAIN document_contexts :
        document_contexts[d].content_filtered
            => /\ invocations[d] = 0
               /\ pc = "done" => document_contexts[d].processing_status = "skipped"

(***************************************************************************)
(* Properties of the error classification (SpecClassify)                   *)
(***************************************************************************)
\* the rules in the order the claim gives them: the kind, the substrings and
\* the return codes of each
PriorityRules ==
    <<[kind |-> "rate_limit", keywords |-> {"rate limit", "too many requests"},
       codes |-> {}],
      [kind |-> "timeout", keywords |-> {"timeout"}, codes |-> {124}],
      [kind |-> "content_too_large", keywords |-> {"too large", "content length"},
       codes |-> {}],
      [kind |-> "cli_auth_error", keywords |-> {"auth", "unauthorized"},
       codes |-> {401}],
      [kind |-> "cli_not_found", keywords |-> {"command not found", "no such file"},
       codes |-> {127}],
      [kind |-> "network_error", keywords |-> {"network", "connection"},
       codes |-> {}],
      [kind |-> "invalid_content", keywords |-> {"invalid", "malformed"},
       codes |-> {}]>>

MatchingRules(result) ==
    {k \in DOMAIN PriorityRules :
        \/ PriorityRules[k].keywords \cap result.error_msg # {}
        \/ result.return_code \in PriorityRules[k].codes}

\* C31: every (message, return code) is classified (the step is always
\* possible and yields one kind of ClaudeErrorType); an input matching
\* several rules gets the kind of the earliest rule in the order rate limit,
\* timeout/124, content-too-large, auth/401, not-found/127, network,
\* invalid/malformed; an input matching none is Unknown and retryable.
C31_ClassificationPriority ==
    LET result == document_contexts[1]
        matching == MatchingRules(result)
    IN  /\ pc = "cli" => ENABLED CliFails
        /\ pc = "classified" =>
              LET last_error == result.last_error[1]
              IN  /\ last_error.error_type \in ClaudeErrorType
                  /\ last_error.is_retryable \in BOOLEAN
                  /\ IF matching = {}
                     THEN /\ last_error.error_type = "unknown_error"
                          /\ last_error.is_retryable
                     ELSE \E k \in matching :
                             /\ \A j \in matching : k <= j
                             /\ last_error.error_type = PriorityRules[k].kind

\* a text with "timeout" and "network" in it came with return code 401: three
\* rules match and the kind is that of the earliest, Timeout
C31_Witness ==
    /\ pc = "classified"
    /\ document_contexts[1].error_msg = {"timeout", "network"}
    /\ document_contexts[1].return_code = 401
    /\ MatchingRules(document_contexts[1]) = {2, 4, 6}
    /\ document_contexts[1].last_error[1].error_type = "timeout"

(***************************************************************************)
(* Properties of one pass of process_document_with_retry (Spec)            *)
(***************************************************************************)
\* the step is a call of claude_processing for document d
Invoked(d) == invocations'[d] = invocations[d] + 1

\* after the step the retry loop of the same pass goes round again
LoopGoesOn ==
    /\ pc' = "attempt"
    /\ batch_num' = batch_num
    /\ doc_pos' = doc_pos

C33_QuarantinedIsSkipped ==
    /\ [](\A d \in Docs :
             document_contexts[d].quarantined
                 => document_contexts[d].processing_status = "skipped")
    /\ [][\A d \in Docs : Invoked(d) => ~document_contexts[d].quarantined]_vars

\* a run after a release has ended: a document released from quarantine was
\* sent to the Analysis Service again and that call put it in quarantine anew;
\* another document is still in the quarantine of the earlier run and was
\* not sent
C33_Witness ==
    /\ pc = "done"
    /\ \E d \in Docs :
           /\ document_contexts[d].quarantined
           /\ document_contexts[d].processing_status = "skipped"
           /\ invocations[d] = 1
    /\ \E d \in Docs :
           /\ document_contexts[d].quarantined
           /\ invocations[d] = 0

(***************************************************************************)
(* Properties of a resumed run (SpecInterrupt)                             *)
(***************************************************************************)
\* the documents the state file this instance loaded held as InProgress
PersistedInProgress ==
    IF loaded.ok
    THEN {d \in DOMAIN loaded.document_contexts :
             loaded.document_contexts[d].processing_status = "in_progress"}
    ELSE {}

\* C34 as stated: when a resumed run has ended, every document whose
\* persisted status was InProgress has been attempted again (the Analysis
\* Service was called for it in this run) and is Completed, Failed or Skipped.
C34_Original ==
    pc = "done" =>
        \A d \in PersistedInProgress :
            /\ d \in Range(Flatten(batches))
            /\ invocations[d] >= 1
            /\ document_contexts[d].processing_status \in TerminalStatuses

(***************************************************************************)
(* Properties of the Progress aggregate on a resumed run (SpecResume)      *)
(***************************************************************************)
\* C35 as stated: the counts update_progress writes never add up to more
\* than total_documents (the remaining-document count of the ETA is not
\* negative), also on a resumed run whose list names documents the restored
\* snapshot did not hold.
C35_Original ==
    batch_progress.processed_documents + batch_progress.failed_documents
        + batch_progress.skipped_documents <= batch_progress.total_documents

(***************************************************************************)
(* Properties of the per-document failure streak (Spec)                    *)
(***************************************************************************)
\* C36 as stated: a document that is Completed has consecutive_failures = 0
\* (the successful attempt ended its failure streak).
C36_Original ==
    \A d \in Docs :
        document_contexts[d].processing_status = "completed"
            => document_contexts[d].consecutive_failures = 0

(***************************************************************************)
(* Frame of release_from_quarantine (SpecRelease)                          *)
(***************************************************************************)
\* the step releases document d from quarantine
Released(d) ==
    document_contexts[d].quarantined /\ ~document_contexts'[d].quarantined

\* a document that was released and is waiting for its next pass
WaitingAfterRelease(d) ==
    /\ document_contexts[d].processing_status = "pending"
    /\ ~document_contexts[d].quarantined
    /\ document_contexts[d].quarantine_reason # <<>>

\* C37: a release changes, of the released document, nothing but quarantined,
\* status, next_retry_time and consecutive_failures (retry_count,
\* failure_pattern, quarantine_reason and every other field keep their
\* values) and leaves every other document as it was; so when the next run
\* has planned its batches a released document with retry_count > 0 is in
\* the retried tier: in a batch of its own, which no batch of a document that
\* was never retried follows.
C37_ReleaseFrame ==
    /\ [][\A d \in Docs :
             Released(d) =>
                 /\ document_contexts'[d] =
                        [document_contexts[d] EXCEPT
                            !.quarantined = document_contexts'[d].quarantined,
                            !.processing_status =
                                document_contexts'[d].processing_status,
                            !.next_retry_time =
                                document_contexts'[d].next_retry_time,
                            !.consecutive_failures =
                                document_contexts'[d].consecutive_failures]
                 /\ document_contexts'[d].retry_count =
                        document_contexts[d].retry_count
                 /\ document_contexts'[d].failure_pattern =
                        document_contexts[d].failure_pattern
                 /\ document_contexts'[d].quarantine_reason =
                        document_contexts[d].quarantine_reason
                 /\ DOMAIN document_contexts' = DOMAIN document_contexts
                 /\ \A e \in Docs \ {d} :
                        document_contexts'[e] = document_contexts[e]]_vars
    /\ [](pc = "batch" /\ batch_num = 0 =>
            \A d \in Docs :
                (WaitingAfterRelease(d) /\ document_contexts[d].retry_count > 0)
                    => /\ ComplexityOf(document_contexts[d]) = "failed"
                       /\ \E b \in DOMAIN batches :
                              /\ batches[b] = <<d>>
                              /\ \A a \in DOMAIN batches :
                                     a > b => DocTierRank(batches[a][1]) = 4)

\* the next run has planned its batches: a document released after three
\* rate-limit failures (retry_count 2, its failure_pattern and its
\* quarantine_reason kept) has a batch of its own, the last one, behind the
\* batch of a released document that was never retried
C37_Witness ==
    /\ pc = "batch"
    /\ batch_num = 0
    /\ \E d \in Docs :
           /\ WaitingAfterRelease(d)
           /\ document_contexts[d].retry_count = 2
           /\ document_contexts[d].failure_pattern = RateLimit3
           /\ document_contexts[d].quarantine_reason = <<"Repeated errors", "rate_limit">>
           /\ document_contexts[d].consecutive_failures = 2
           /\ Len(batches) = 2
           /\ batches[2] = <<d>>
    /\ \E e \in Docs :
           /\ WaitingAfterRelease(e)
           /\ document_contexts[e].retry_count = 0
           /\ batches[1] = <<e>>

====
